---- MODULE Spec2Model ----
(***************************************************************************)
(* Model of the network interface manager (nim) of go-provision: the       *)
(* select loops of cmd/nim/nim.go, the periodic connectivity test, the     *)
(* test-better timer, the DevicePortConfig verification engine and the     *)
(* consumers of DeviceNetworkStatus (ledmanager, diag, wstunnelclient).    *)
(*                                                                         *)
(* List indexes (CurrentIndex, NextDPCIndex) are 0-based as in the Go      *)
(* code; TLA+ sequences are 1-based, so candidate i is PortConfigList[i+1].*)
(***************************************************************************)
EXTENDS Integers, Sequences, FiniteSets, TLC

\* ------------------------------------------------------------------ bounds
MaxPrio == 3        \* latest TimePriority of a received candidate
MaxAddrs == 2       \* most usable addresses a delivered status carries
MaxIP == 1          \* largest host address of a directory address event
GeoRedoTime == 3    \* globalConfig.NetworkGeoRedoTime, in seconds
MaxClock == 7       \* the clock stops here
MaxRules == 16      \* longest INPUT chain an event is handled with
MaxMissed == 3      \* most ticks of the StillRunning ticker counted
MaxTries == 2       \* tries before the fallback to default.json (120)
MaxBlink == 3       \* largest LedBlinkCounter published

VARIABLES
    loop,                       \* which select loop of Run() is running
    AAInitialized,              \* AssignableAdapters.Initialized
    PortConfigList,             \* DevicePortConfigList.PortConfigList
    CurrentIndex,               \* DevicePortConfigList.CurrentIndex, -1 if none
    NextDPCIndex,               \* DeviceNetworkContext.NextDPCIndex
    engine,                     \* "Idle", "Testing" or "Exhausted"
    PendingInprogress,          \* Pending.Inprogress
    PendDNS,                    \* Pending.PendDNS
    DeviceNetworkStatus,        \* ctx.DeviceNetworkStatus
    pubDNS,                     \* last DeviceNetworkStatus published
    persisted,                  \* last DevicePortConfigList persisted
    CloudConnectivityWorks,
    PendTimer,                  \* "armed" or "stopped"
    NetworkTestTimer,
    NetworkTestBetterTimer,
    NetworkTestBetterInterval,
    lastEvent,                  \* the case of the select loop handled last
    lastTest,                   \* result of the last periodic test
    sweep,                      \* indexes probed since the last RestartVerify
    listChanged,                \* list changed since the last RestartVerify
    \* interface directory
    ifindexToName,              \* map[int]linkNameType
    ifindexToAddrs,             \* map[int][]net.IPNet
    osLinks,                    \* the links the kernel has (netlink.LinkBy*)
    lastResult,                 \* the directory call made last and its result
    logged,                     \* what the link call made last logged
    failing,                    \* the calls for port data that fail for now
    \* geolocation
    now,                        \* time.Now(), in seconds
    publicIP,                   \* what ipinfo answers for now, "none": error
    geoLookups,                 \* the addresses the last step asked ipinfo for
    geoLookedUp,                \* per address, when ipinfo was asked last
    \* ledmanager
    ledDNS,                     \* ctx.deviceNetworkStatus
    ledUsableAddressCount,      \* ctx.usableAddressCount
    ledCounter,                 \* ctx.ledCounter
    derivedLedCounter,          \* ctx.derivedLedCounter
    blinkCounter,               \* counter of TriggerBlinkOnDevice
    countChange,                \* the value the main loop is sending, or NoSend
    blinkPc,                    \* where TriggerBlinkOnDevice is in its cycle
    blinkI,                     \* i of its blink loop
    ledUpdated,                 \* updateDerivedLedCounter was called
    \* diag
    diagDNS,                    \* ctx.DeviceNetworkStatus
    diagGotDNS,                 \* ctx.gotDNS
    diagGotOthers,              \* ctx.gotBC and ctx.gotDPCList
    diagOutput,                 \* the status printOutput printed last
    \* wstunnelclient
    wstDNS,                     \* ctx.deviceNetworkStatus
    wstUsableAddressCount,      \* ctx.usableAddressCount
    DNSinitialized,             \* ctx.DNSinitialized
    wstDelivered,               \* a status for "global" came, none deleted since
    \* nim: GlobalConfig and the INPUT chain
    GCInitialized,              \* ctx.GCInitialized
    sshAccess,                  \* ctx.sshAccess
    allowAppVnc,                \* ctx.allowAppVnc
    iptables,                   \* the rules of the INPUT chain, in order
    fwRev,                      \* the revision of UpdateSshAccess built in
    \* client
    clientDNS,                  \* ctx.deviceNetworkStatus
    clientUsableAddressCount,   \* ctx.usableAddressCount
    clientLed,                  \* the value the last handler gave ledmanager
    \* nim: startup and the StillRunning ticker
    phase,                      \* where Run() is before its select loops
    stillRunningC,              \* a tick waits in stillRunning.C
    missedTicks,                \* ticks since the last StillRunning call
    tries,                      \* waitForDeviceNetworkConfigFile: tries
    model,                      \* waitForDeviceNetworkConfigFile: model
    dncFiles,                   \* the configuration files that exist
    \* zedrouter: policy routing
    rules,                      \* the kernel's source rules
    calls,                      \* the callbacks the last address event made
    routes,                     \* the routes of the tables PBR fills
    freePorts                   \* the ports the current status marks Free

nimVars == <<loop, AAInitialized, PortConfigList, CurrentIndex, NextDPCIndex,
             engine, PendingInprogress, PendDNS, DeviceNetworkStatus, pubDNS,
             persisted, CloudConnectivityWorks, PendTimer, NetworkTestTimer,
             NetworkTestBetterTimer, NetworkTestBetterInterval,
             lastEvent, lastTest, sweep, listChanged>>

geoVars == <<now, publicIP, geoLookups, geoLookedUp>>

ifVars == <<ifindexToName, ifindexToAddrs, osLinks, lastResult, logged,
            failing, geoVars>>

\* The state the verification engine owns.
engineVars == <<PortConfigList, CurrentIndex, NextDPCIndex, engine,
                PendingInprogress, PendDNS, DeviceNetworkStatus, pubDNS,
                persisted, PendTimer, sweep, listChanged>>

ledVars == <<ledDNS, ledUsableAddressCount, ledCounter, derivedLedCounter,
             blinkCounter, countChange, blinkPc, blinkI, ledUpdated>>
diagVars == <<diagDNS, diagGotDNS, diagGotOthers, diagOutput>>
wstVars == <<wstDNS, wstUsableAddressCount, DNSinitialized, wstDelivered>>
consumerVars == <<ledVars, diagVars, wstVars>>

fwVars == <<GCInitialized, sshAccess, allowAppVnc, iptables, fwRev>>

\* State of the parts handled apart from the select loop's candidates.
clientVars == <<clientDNS, clientUsableAddressCount, clientLed>>

beatVars == <<phase, stillRunningC, missedTicks, tries, model, dncFiles>>

pbrVars == <<rules, calls, routes, freePorts>>

restVars == <<fwVars, clientVars, beatVars, pbrVars>>

vars == <<nimVars, ifVars, consumerVars, restVars>>

\* ------------------------------------------------------------- candidates
\* Source keys of the three DevicePortConfig subscriptions (nim.go:200-235).
KeyA == "zedagent"
KeyO == "override"
KeyS == "nim"
Keys == {KeyA, KeyO, KeyS}

\* Precedence of the sources, the tie-break of the sort: zedagent, then the
\* override file, then the self-generated candidate (nim.go:200-203).
KeyRank(k) == CASE k = KeyS -> 1 [] k = KeyO -> 2 [] k = KeyA -> 3

MgmtPort == [IfName |-> "eth0", IsMgmt |-> TRUE]
PortChoices == {<<>>, <<MgmtPort>>}

\* Timestamps: the zero time.Time of a candidate never probed, and the
\* time.Now() a probe result records.
ZeroTime == "zero"
TimeNow == "now"

NewCandidate(key, prio, ports) ==
    [Key |-> key, TimePriority |-> prio, Ports |-> ports,
     LastSucceeded |-> ZeroTime, LastFailed |-> ZeroTime, LastError |-> ""]

At(list, i) == list[i + 1]

KeysOf(list) == {list[i].Key : i \in 1..Len(list)}

\* 0-based index of the candidate with source key k, -1 if there is none.
IndexOfKey(list, k) ==
    IF k \in KeysOf(list)
    THEN (CHOOSE i \in 1..Len(list) : list[i].Key = k) - 1
    ELSE -1

KeyAtIndex(list, i) ==
    IF i >= 0 /\ i < Len(list) THEN list[i + 1].Key ELSE "none"

\* ------------------------------------------------------ Port Config Store
\* An order that puts the earlier TimePriority first.
BeforeEarlierFirst(a, b) ==
    \/ a.TimePriority < b.TimePriority
    \/ a.TimePriority = b.TimePriority /\ KeyRank(a.Key) > KeyRank(b.Key)

\* a sorts before b: later TimePriority first, source precedence as
\* tie-break.
Before(a, b) ==
    \/ a.TimePriority > b.TimePriority
    \/ a.TimePriority = b.TimePriority /\ KeyRank(a.Key) > KeyRank(b.Key)

\* Insert c into a list that is sorted by Before.
InsertByPriority(list, c) ==
    LET k == Cardinality({i \in 1..Len(list) : Before(list[i], c)})
    IN  SubSeq(list, 1, k) \o <<c>> \o SubSeq(list, k + 1, Len(list))

RECURSIVE SortDPCL(_)
SortDPCL(list) ==
    IF list = <<>> THEN <<>>
    ELSE InsertByPriority(SortDPCL(Tail(list)), Head(list))

RemoveKey(list, k) == SelectSeq(list, LAMBDA c : c.Key # k)

\* An upsert that appends without looking for the source key.
upsertCandidateAppend(list, key, prio, ports) ==
    Append(list, NewCandidate(key, prio, ports))

\* upsertCandidate: replace the entry of the same source key, carry its history
\* forward when the interface set is unchanged, re-sort.
upsertCandidate(list, key, prio, ports) ==
    LET i   == IndexOfKey(list, key)
        new == NewCandidate(key, prio, ports)
        c   == IF i >= 0 /\ At(list, i).Ports = ports
               THEN [new EXCEPT !.LastSucceeded = At(list, i).LastSucceeded,
                                !.LastFailed = At(list, i).LastFailed,
                                !.LastError = At(list, i).LastError]
               ELSE new
    IN  SortDPCL(Append(RemoveKey(list, key), c))

removeCandidate(list, key) == RemoveKey(list, key)

\* A next that skips a candidate.
nextSkip(list, afterIndex) ==
    IF afterIndex + 2 < Len(list) THEN afterIndex + 2 ELSE -1

\* next(afterIndex): the next lower-priority candidate, -1 if there is none.
next(list, afterIndex) ==
    IF afterIndex + 1 < Len(list) THEN afterIndex + 1 ELSE -1

\* ------------------------------------------------------ interface directory
\* A Go map is a function on the keys it holds.
EmptyMap == <<>>
Put(m, k, v) == [x \in DOMAIN m \cup {k} |-> IF x = k THEN v ELSE m[x]]
Drop(m, k) == [x \in DOMAIN m \ {k} |-> m[x]]

Ifindexes == {1, 2}
LinkNames == {"eth0", "eth1"}
LinkTypes == {"device", "bridge"}
linkNameType(linkName, linkType) ==
    [linkName |-> linkName, linkType |-> linkType]

\* An add that keeps the name it has for a known index.
IfindexToNameAddKeepName(names, index, linkName, linkType) ==
    IF index \notin DOMAIN names
    THEN [cache |-> Put(names, index, linkNameType(linkName, linkType)),
          ret |-> TRUE, log |-> "IfindexToNameAdd"]
    ELSE IF names[index].linkName # linkName
    THEN [cache |-> names, ret |-> FALSE, log |-> "name mismatch"]
    ELSE [cache |-> names, ret |-> FALSE, log |-> ""]

\* IfindexToNameAdd: the cache after the call, "returns true if added" and
\* what is logged.
IfindexToNameAdd(names, index, linkName, linkType) ==
    IF index \notin DOMAIN names
    THEN [cache |-> Put(names, index, linkNameType(linkName, linkType)),
          ret |-> TRUE, log |-> "IfindexToNameAdd"]
    ELSE IF names[index].linkName # linkName
    THEN [cache |-> Put(names, index, linkNameType(linkName, linkType)),
          ret |-> FALSE, log |-> "name mismatch"]
    ELSE [cache |-> names, ret |-> FALSE, log |-> ""]

\* IfindexToNameDel: the cache after the call and "returns true if deleted".
\* A delete that keeps the entry when the name of the event is another one.
IfindexToNameDelIfSameName(names, index, linkName) ==
    IF index \notin DOMAIN names
    THEN [cache |-> names, ret |-> FALSE, log |-> "unknown index"]
    ELSE IF names[index].linkName # linkName
    THEN [cache |-> names, ret |-> FALSE, log |-> "name mismatch"]
    ELSE [cache |-> Drop(names, index), ret |-> TRUE,
          log |-> "IfindexToNameDel"]

IfindexToNameDel(names, index, linkName) ==
    IF index \notin DOMAIN names
    THEN [cache |-> names, ret |-> FALSE, log |-> "unknown index"]
    ELSE IF names[index].linkName # linkName
    THEN [cache |-> Drop(names, index), ret |-> TRUE, log |-> "name mismatch"]
    ELSE [cache |-> Drop(names, index), ret |-> TRUE,
          log |-> "IfindexToNameDel"]

NoLink == [linkName |-> "", linkType |-> "", err |-> TRUE]
Found(lnt) == [linkName |-> lnt.linkName, linkType |-> lnt.linkType,
               err |-> FALSE]

\* netlink.LinkByIndex and netlink.LinkByName: what the kernel answers.
LinkByIndex(os, index) ==
    IF index \in DOMAIN os THEN Found(os[index]) ELSE NoLink
LinkByName(os, ifname) ==
    LET hits == {i \in DOMAIN os : os[i].linkName = ifname}
    IN  IF hits = {} THEN [index |-> -1, err |-> TRUE]
        ELSE [index |-> CHOOSE i \in hits : TRUE, err |-> FALSE]

\* IfindexToName: the cached entry, else the kernel's.
IfindexToName(names, os, index) ==
    IF index \in DOMAIN names THEN Found(names[index])
    ELSE LinkByIndex(os, index)

\* IfnameToIndex: every answer the call can give.  It ranges over the map,
\* and Go fixes no order for that: with the name cached under two indexes
\* either one can be returned.
IfnameToIndex(names, os, ifname) ==
    LET hits == {i \in DOMAIN names : names[i].linkName = ifname}
    IN  IF hits # {} THEN {[index |-> i, err |-> FALSE] : i \in hits}
        ELSE {LinkByName(os, ifname)}

\* IfnameToIndex of the earlier revision: the cache only.
IfnameToIndexUplink(names, ifname) ==
    LET hits == {i \in DOMAIN names : names[i].linkName = ifname}
    IN  IF hits # {} THEN {[index |-> i, err |-> FALSE] : i \in hits}
        ELSE {[index |-> -1, err |-> TRUE]}

\* Addresses are host addresses of two bits under a prefix length; IPs are
\* the ones the directory events carry.
IPs == 0..MaxIP
PrefixLens == {1, 2}
IPNet(ip, len) == [IP |-> ip, PrefixLen |-> len]
IPNets == {IPNet(ip, len) : ip \in IPs, len \in PrefixLens}
Masked(ip, len) == ip \div (2 ^ (2 - len))
\* net.IPNet.Contains
Contains(n, ip) == Masked(n.IP, n.PrefixLen) = Masked(ip, n.PrefixLen)
\* net.IP.IsLinkLocalUnicast: the upper half of the address space
LinkLocalNet == IPNet(2, 1)
IsLinkLocalUnicast(ip) == Contains(LinkLocalNet, ip)

\* An equality that also compares the prefix length.
SameAddrExact(a, addr) == a = addr

\* "Equal if containment in both directions?"
SameAddr(a, addr) ==
    a.IP = addr.IP /\ Contains(a, addr.IP) /\ Contains(addr, a.IP)

RemoveAt(seq, i) == SubSeq(seq, 1, i - 1) \o SubSeq(seq, i + 1, Len(seq))

\* IfindexToAddrsAdd: the cache after the call and "returns true if added".
IfindexToAddrsAdd(addrs, index, addr) ==
    IF index \notin DOMAIN addrs
    THEN [cache |-> Put(addrs, index, <<addr>>), ret |-> TRUE]
    ELSE LET found == \E i \in 1..Len(addrs[index]) :
                        SameAddr(addrs[index][i], addr)
         IN  IF ~found
             THEN [cache |-> Put(addrs, index, Append(addrs[index], addr)),
                   ret |-> TRUE]
             ELSE [cache |-> addrs, ret |-> FALSE]

\* IfindexToAddrsDel: the cache after the call and "returns true if deleted".
\* The first entry that is the same address goes.
IfindexToAddrsDel(addrs, index, addr) ==
    IF index \notin DOMAIN addrs
    THEN [cache |-> addrs, ret |-> FALSE]
    ELSE LET hits == {i \in 1..Len(addrs[index]) :
                        SameAddr(addrs[index][i], addr)}
         IN  IF hits # {}
             THEN LET i == CHOOSE j \in hits : \A k \in hits : j <= k
                  IN  [cache |-> Put(addrs, index, RemoveAt(addrs[index], i)),
                       ret |-> TRUE]
             ELSE [cache |-> addrs, ret |-> FALSE]

\* IfindexToAddrs: nil and an error for an index the cache does not hold.
IfindexToAddrs(addrs, index) ==
    IF index \in DOMAIN addrs THEN [addrs |-> addrs[index], err |-> FALSE]
    ELSE [addrs |-> <<>>, err |-> TRUE]

\* The arguments of a call of the directory: the ones the call does not take
\* are left at their zero values.
NoArg == [index |-> 0, linkName |-> "", linkType |-> "", addr |-> IPNet(0, 0),
          ports |-> <<>>]
AddrArg(addr) == [NoArg EXCEPT !.addr = addr]
LinkArg(index, linkName, linkType) ==
    [NoArg EXCEPT !.index = index, !.linkName = linkName,
                  !.linkType = linkType]
PortsArg(ports) == [NoArg EXCEPT !.ports = ports]

\* What a call of the directory returned, for the arguments it was made
\* with; a lookup also has the link or the index it answered.
Result(op, arg, ret) ==
    [op |-> op, arg |-> arg, ret |-> ret, link |-> NoLink,
     found |-> [index |-> -1, err |-> TRUE]]
NoResult == Result("none", NoArg, FALSE)
LinkAnswer(index, ans) ==
    [Result("IfindexToName", LinkArg(index, "", ""), ~ans.err)
       EXCEPT !.link = ans]
IndexAnswer(op, ifname, ans) ==
    [Result(op, LinkArg(0, ifname, ""), ~ans.err) EXCEPT !.found = ans]

\* The directory as the functions above read it.
Dir == [names |-> ifindexToName, os |-> osLinks, addrs |-> ifindexToAddrs,
        failing |-> failing, now |-> now]

\* ------------------------------------------------------ Status Synthesizer
EmptyStatus == [Key |-> "none", Testing |-> FALSE, Ports |-> <<>>]

AddrInfo(ip) == [Addr |-> ip]
AddrInfoList(addrs) == [i \in 1..Len(addrs) |-> AddrInfo(addrs[i].IP)]

\* The calls for DHCP data and proxy configuration that can fail.
PortCalls == {"GetDhcpInfo", "GetNetworkProxy"}

\* The zero time.Time of an ErrorTime never set; the clock is past it.
NoErrorTime == 0

\* Error and ErrorTime of the entry of a port that has an index: those of
\* the call that failed last, the proxy call coming after the DHCP call.
\* ErrorTime is the time.Now() of the call that makes the status.
PortError(d) ==
    IF "GetNetworkProxy" \in d.failing
    THEN [Error |-> "GetNetworkProxy failed", ErrorTime |-> d.now]
    ELSE IF "GetDhcpInfo" \in d.failing
    THEN [Error |-> "GetDhcpInfo failed", ErrorTime |-> d.now]
    ELSE [Error |-> "", ErrorTime |-> NoErrorTime]

\* The status entries one configured port can get.  A port whose name has no
\* index is logged and skipped (continue): its entry keeps the fields of the
\* configuration and nothing else.  Else the entry gets the addresses the
\* directory d holds for the index.
PortStatusChoices(port, d) ==
    {IF r.err
     THEN [IfName |-> port.IfName, IsMgmt |-> port.IsMgmt,
           AddrInfoList |-> <<>>, Error |-> "", ErrorTime |-> NoErrorTime]
     ELSE [IfName |-> port.IfName, IsMgmt |-> port.IsMgmt,
           AddrInfoList |->
             AddrInfoList(IfindexToAddrs(d.addrs, r.index).addrs),
           Error |-> PortError(d).Error,
           ErrorTime |-> PortError(d).ErrorTime]
       : r \in IfnameToIndex(d.names, d.os, port.IfName)}

\* One status entry per configured port, in configuration order: every
\* status the call can return under directory d.
MakeDeviceNetworkStatus(key, ports, d) ==
    LET all == UNION {PortStatusChoices(ports[i], d) : i \in 1..Len(ports)}
    IN  {[Key |-> key, Testing |-> FALSE, Ports |-> p] :
           p \in {f \in [1..Len(ports) -> all] :
                    \A i \in 1..Len(ports) :
                       f[i] \in PortStatusChoices(ports[i], d)}}

Materialize(c, d) == MakeDeviceNetworkStatus(c.Key, c.Ports, d)

\* types.GetMgmtPortsFree(status, 0): the names of the management ports.
GetMgmtPortsFree(status) ==
    {status.Ports[i].IfName : i \in {j \in 1..Len(status.Ports) :
                                       status.Ports[j].IsMgmt}}

\* types.CountLocalAddrFreeNoLinkLocalIf: addresses of the port of that name
\* that are not link-local.
CountLocalAddrFreeNoLinkLocalIf(status, ifname) ==
    Cardinality(UNION {
        {<<i, j>> : j \in {k \in 1..Len(status.Ports[i].AddrInfoList) :
              ~IsLinkLocalUnicast(status.Ports[i].AddrInfoList[k].Addr)}} :
        i \in {p \in 1..Len(status.Ports) : status.Ports[p].IfName = ifname}})

\* Every management port has an address to test with; false when the status
\* has no management port.
checkIfAllDNSPortsHaveIPAddrs(status) ==
    LET mgmtPorts == GetMgmtPortsFree(status)
    IN  IF mgmtPorts = {} THEN FALSE
        ELSE \A port \in mgmtPorts :
               ~(CountLocalAddrFreeNoLinkLocalIf(status, port) < 1)

MgmtPorts(status) == {i \in 1..Len(status.Ports) : status.Ports[i].IsMgmt}

\* A probe is sent on the management ports that have an address which is not
\* link-local: without one it cannot succeed.
Probeable(status) ==
    \E i \in MgmtPorts(status) :
       \E j \in 1..Len(status.Ports[i].AddrInfoList) :
          ~IsLinkLocalUnicast(status.Ports[i].AddrInfoList[j].Addr)

\* ----------------------------------------------------- Verification Engine
\* Index in list2 of the candidate that index i of list names; when that
\* candidate is gone, the nearest index list2 still has.
Track(list, list2, i) ==
    LET k == IndexOfKey(list2, KeyAtIndex(list, i))
    IN  IF k >= 0 THEN k
        ELSE IF Len(list2) = 0 THEN 0
        ELSE IF i < Len(list2) THEN i
        ELSE Len(list2) - 1

Persist(list, cur) == [PortConfigList |-> list, CurrentIndex |-> cur]

\* Make candidate idx of list the pending one and publish its status as
\* Testing.
SetupVerify(list, idx) ==
    /\ NextDPCIndex' = idx
    /\ engine' = "Testing"
    /\ PendingInprogress' = TRUE
    /\ PendDNS' \in {[st EXCEPT !.Testing = TRUE] :
                      st \in Materialize(At(list, idx), Dir')}
    /\ pubDNS' = PendDNS'
    /\ PendTimer' = "armed"

\* RestartVerify on the store (list, cur): pending index 0, Testing.  With no
\* candidate at all there is nothing to test: the engine is Exhausted and
\* retries on its timer.
RestartVerify(list, cur) ==
    /\ PortConfigList' = list
    /\ CurrentIndex' = cur
    /\ persisted' = Persist(list, cur)
    /\ sweep' = <<>>
    /\ listChanged' = FALSE
    /\ UNCHANGED DeviceNetworkStatus
    /\ IF list = <<>>
       THEN /\ NextDPCIndex' = 0
            /\ engine' = "Exhausted"
            /\ PendingInprogress' = FALSE
            /\ PendTimer' = "armed"
            /\ UNCHANGED <<PendDNS, pubDNS>>
       ELSE SetupVerify(list, 0)

\* An accept that makes the candidate current without recording the success.
VerifyAcceptNoRecord ==
    LET idx == NextDPCIndex
    IN  \E st \in Materialize(At(PortConfigList, idx), Dir') :
        /\ Probeable(st)
        /\ CurrentIndex' = idx
        /\ DeviceNetworkStatus' = [st EXCEPT !.Testing = FALSE]
        /\ pubDNS' = DeviceNetworkStatus'
        /\ persisted' = Persist(PortConfigList, idx)
        /\ engine' = "Idle"
        /\ PendingInprogress' = FALSE
        /\ PendDNS' = EmptyStatus
        /\ PendTimer' = "stopped"
        /\ NetworkTestTimer' = "armed"
        /\ lastEvent' = "VerifyAccept"
        /\ UNCHANGED <<PortConfigList, NextDPCIndex>>

\* An accept that does not ask for a management port.
VerifyAcceptAnyPorts ==
    LET idx  == NextDPCIndex
        list == [PortConfigList EXCEPT ![idx + 1].LastSucceeded = TimeNow]
    IN  \E st \in Materialize(At(PortConfigList, idx), Dir') :
        /\ PortConfigList' = list
        /\ CurrentIndex' = idx
        /\ DeviceNetworkStatus' = [st EXCEPT !.Testing = FALSE]
        /\ pubDNS' = DeviceNetworkStatus'
        /\ persisted' = Persist(list, idx)
        /\ engine' = "Idle"
        /\ PendingInprogress' = FALSE
        /\ PendDNS' = EmptyStatus
        /\ PendTimer' = "stopped"
        /\ NetworkTestTimer' = "armed"
        /\ lastEvent' = "VerifyAccept"
        /\ UNCHANGED NextDPCIndex

\* Testing -> accept: the probe of the pending candidate succeeded.
VerifyAccept ==
    LET idx  == NextDPCIndex
        list == [PortConfigList EXCEPT ![idx + 1].LastSucceeded = TimeNow]
    IN  \E st \in Materialize(At(PortConfigList, idx), Dir') :
        /\ Probeable(st)
        /\ PortConfigList' = list
        /\ CurrentIndex' = idx
        /\ DeviceNetworkStatus' = [st EXCEPT !.Testing = FALSE]
        /\ pubDNS' = DeviceNetworkStatus'
        /\ persisted' = Persist(list, idx)
        /\ engine' = "Idle"
        /\ PendingInprogress' = FALSE
        /\ PendDNS' = EmptyStatus
        /\ PendTimer' = "stopped"
        /\ NetworkTestTimer' = "armed"
        /\ lastEvent' = "VerifyAccept"
        /\ UNCHANGED NextDPCIndex

\* A failure that starts over from the highest-priority candidate.
VerifyFailFromTop ==
    LET idx  == NextDPCIndex
        list == [PortConfigList EXCEPT ![idx + 1].LastFailed = TimeNow,
                                       ![idx + 1].LastError = "failed"]
    IN  /\ PortConfigList' = list
        /\ persisted' = Persist(list, CurrentIndex)
        /\ UNCHANGED <<CurrentIndex, DeviceNetworkStatus, NetworkTestTimer>>
        /\ lastEvent' = "VerifyFail"
        /\ SetupVerify(list, 0)

\* Testing -> advance or Exhausted: the probe of the pending candidate failed.
VerifyFail ==
    LET idx  == NextDPCIndex
        list == [PortConfigList EXCEPT ![idx + 1].LastFailed = TimeNow,
                                       ![idx + 1].LastError = "failed"]
        n    == next(list, idx)
    IN  /\ PortConfigList' = list
        /\ persisted' = Persist(list, CurrentIndex)
        /\ UNCHANGED <<CurrentIndex, DeviceNetworkStatus, NetworkTestTimer>>
        /\ lastEvent' = "VerifyFail"
        /\ IF n # -1
           THEN SetupVerify(list, n)
           ELSE /\ engine' = "Exhausted"
                /\ PendingInprogress' = FALSE
                /\ PendDNS' = EmptyStatus
                /\ PendTimer' = "armed"
                /\ UNCHANGED <<NextDPCIndex, pubDNS>>

\* A VerifyDevicePortConfig that applies a probe result without looking at
\* the state of the engine.
VerifyDevicePortConfigAnyState ==
    IF PortConfigList # <<>> /\ NextDPCIndex < Len(PortConfigList)
    THEN /\ \/ VerifyAccept
            \/ VerifyFail
         /\ sweep' = IF listChanged THEN sweep ELSE Append(sweep, NextDPCIndex)
         /\ UNCHANGED listChanged
    ELSE /\ RestartVerify(PortConfigList, CurrentIndex)
         /\ lastEvent' = "VerifyRetry"
         /\ UNCHANGED NetworkTestTimer

\* VerifyDevicePortConfig: probe the pending candidate; in Exhausted the call
\* is the retry, from index 0; in Idle there is nothing to verify.
VerifyDevicePortConfig ==
    CASE engine = "Testing" ->
           /\ \/ VerifyAccept
              \/ VerifyFail
           /\ sweep' = IF listChanged THEN sweep ELSE Append(sweep, NextDPCIndex)
           /\ UNCHANGED listChanged
      [] engine = "Exhausted" ->
           /\ RestartVerify(PortConfigList, CurrentIndex)
           /\ lastEvent' = "VerifyRetry"
           /\ UNCHANGED NetworkTestTimer
      [] OTHER ->
           /\ PendTimer' = "stopped"
           /\ lastEvent' = "VerifyIdle"
           /\ UNCHANGED <<PortConfigList, CurrentIndex, NextDPCIndex, engine,
                          PendingInprogress, PendDNS, DeviceNetworkStatus,
                          pubDNS, persisted, sweep, listChanged,
                          NetworkTestTimer>>

\* A store change that does not restart the verification.
StoreChanged(list2, cur2) ==
    /\ PortConfigList' = list2
    /\ CurrentIndex' = cur2
    /\ NextDPCIndex' = Track(PortConfigList, list2, NextDPCIndex)
    /\ persisted' = Persist(list2, cur2)
    /\ sweep' = <<>>
    /\ listChanged' = TRUE
    /\ UNCHANGED <<engine, PendingInprogress, PendDNS, DeviceNetworkStatus,
                   pubDNS, PendTimer>>

HandleDPCModify(key, prio, ports) ==
    LET list2  == upsertCandidate(PortConfigList, key, prio, ports)
        cur2   == IndexOfKey(list2, KeyAtIndex(PortConfigList, CurrentIndex))
        newIdx == IndexOfKey(list2, key)
    IN  IF engine = "Exhausted" \/ cur2 = -1 \/ newIdx < cur2
        THEN RestartVerify(list2, cur2)
        ELSE StoreChanged(list2, cur2)

\* A delete that does not look whether the candidate was the current one.
HandleDPCDeleteNoRestart(key) ==
    LET list2      == removeCandidate(PortConfigList, key)
        wasPending == engine = "Testing"
                      /\ KeyAtIndex(PortConfigList, NextDPCIndex) = key
        cur2       == IndexOfKey(list2,
                                 KeyAtIndex(PortConfigList, CurrentIndex))
    IN  IF wasPending
        THEN RestartVerify(list2, cur2)
        ELSE StoreChanged(list2, cur2)

HandleDPCDelete(key) ==
    LET list2      == removeCandidate(PortConfigList, key)
        wasCurrent == KeyAtIndex(PortConfigList, CurrentIndex) = key
        wasPending == engine = "Testing"
                      /\ KeyAtIndex(PortConfigList, NextDPCIndex) = key
        cur2       == IF wasCurrent THEN -1
                      ELSE IndexOfKey(list2,
                                      KeyAtIndex(PortConfigList, CurrentIndex))
    IN  IF wasCurrent \/ wasPending
        THEN RestartVerify(list2, cur2)
        ELSE StoreChanged(list2, cur2)

\* ------------------------------------------------------------ nim: Run()
\* The wait for AssignableAdapters ends when an iteration of its select loop
\* leaves AssignableAdapters.Initialized true.
\* What a case that is no link or address change leaves alone.
IfFrame == UNCHANGED ifVars

LoopNext ==
    /\ loop' = IF loop = "waitAA" /\ AAInitialized' THEN "main" ELSE loop
    /\ UNCHANGED <<consumerVars, restVars>>

\* A periodic test without the debounce: any failure restarts verification.
tryDeviceConnectivityToCloudNoDebounce(pass) ==
    IF pass
    THEN /\ CloudConnectivityWorks' = TRUE
         /\ NetworkTestTimer' = "armed"
         /\ lastEvent' = "NetworkTestPassed"
         /\ UNCHANGED engineVars
    ELSE /\ NetworkTestTimer' = "armed"
         /\ CloudConnectivityWorks' = FALSE
         /\ IF PendingInprogress
            THEN /\ lastEvent' = "NetworkTestInprogress"
                 /\ UNCHANGED engineVars
            ELSE /\ lastEvent' = "NetworkTestRestart"
                 /\ RestartVerify(PortConfigList, CurrentIndex)

tryDeviceConnectivityToCloud(pass) ==
    IF pass
    THEN /\ CloudConnectivityWorks' = TRUE
         /\ NetworkTestTimer' = "armed"
         /\ lastEvent' = "NetworkTestPassed"
         /\ UNCHANGED engineVars
    ELSE IF ~CloudConnectivityWorks
    THEN /\ NetworkTestTimer' = "stopped"
         /\ UNCHANGED CloudConnectivityWorks
         /\ IF PendingInprogress
            THEN /\ lastEvent' = "NetworkTestInprogress"
                 /\ UNCHANGED engineVars
            ELSE /\ lastEvent' = "NetworkTestRestart"
                 /\ RestartVerify(PortConfigList, CurrentIndex)
    ELSE /\ NetworkTestTimer' = "armed"
         /\ CloudConnectivityWorks' = FALSE
         /\ lastEvent' = "NetworkTestFailed"
         /\ UNCHANGED engineVars

\* case <-dnc.NetworkTestTimer.C
NetworkTestTimerFire ==
    /\ NetworkTestTimer = "armed"
    /\ IfFrame
    /\ \E pass \in BOOLEAN :
         /\ pass => Probeable(DeviceNetworkStatus)
         /\ tryDeviceConnectivityToCloud(pass)
         /\ lastTest' = IF pass THEN "passed" ELSE "failed"
    /\ UNCHANGED <<AAInitialized, NetworkTestBetterInterval,
                   NetworkTestBetterTimer>>
    /\ LoopNext

\* What a probe can meet: /config/server cannot be read, neither the device
\* nor the onboarding certificate is found, the TLS configuration fails, the
\* proxy of a port cannot be retrieved, VerifyAllIntf returns an error (DNS
\* failure, connect timeout), no port got a 200, or a port got one.
ProbeOutcomes == {"serverFileUnreadable", "noCertificate", "tlsConfigFailed",
                  "proxyFailed", "verifyAllIntfFailed", "notReachable", "ok"}

\* VerifyDeviceNetworkStatus: log.Fatal when /config/server cannot be read,
\* else nil for a reachable cloud and an error for everything else.
VerifyDeviceNetworkStatus(outcome) ==
    [fatal |-> outcome = "serverFileUnreadable",
     pass  |-> outcome = "ok"]

\* The process is running.
Alive == loop # "exited"

\* case <-dnc.NetworkTestTimer.C with the outcomes of the probe told apart:
\* log.Fatal ends the process, every other outcome goes to the caller.
NetworkTestTimerProbe ==
    /\ Alive
    /\ NetworkTestTimer = "armed"
    /\ IfFrame
    /\ UNCHANGED <<AAInitialized, NetworkTestBetterInterval,
                   NetworkTestBetterTimer>>
    /\ \E outcome \in ProbeOutcomes :
         LET r == VerifyDeviceNetworkStatus(outcome)
         IN  /\ r.pass => Probeable(DeviceNetworkStatus)
             /\ IF r.fatal
                THEN /\ loop' = "exited"
                     /\ lastEvent' = "Fatal"
                     /\ UNCHANGED <<engineVars, NetworkTestTimer,
                                    CloudConnectivityWorks, lastTest,
                                    consumerVars, restVars>>
                ELSE /\ tryDeviceConnectivityToCloud(r.pass)
                     /\ lastTest' = IF r.pass THEN "passed" ELSE "failed"
                     /\ LoopNext

\* A test-better firing that does not look at the index.
NetworkTestBetterTimerFireAnyIndex ==
    /\ NetworkTestBetterTimer = "armed"
    /\ IfFrame
    /\ NetworkTestBetterTimer' = "stopped"
    /\ lastEvent' = "TestBetterRestart"
    /\ RestartVerify(PortConfigList, CurrentIndex)
    /\ UNCHANGED <<AAInitialized, NetworkTestBetterInterval, NetworkTestTimer,
                   CloudConnectivityWorks, lastTest>>
    /\ LoopNext

\* case <-dnc.NetworkTestBetterTimer.C
NetworkTestBetterTimerFire ==
    /\ NetworkTestBetterTimer = "armed"
    /\ IfFrame
    /\ NetworkTestBetterTimer' = "stopped"
    /\ IF NextDPCIndex = 0
       THEN /\ lastEvent' = "TestBetterIgnored"
            /\ UNCHANGED engineVars
       ELSE /\ lastEvent' = "TestBetterRestart"
            /\ RestartVerify(PortConfigList, CurrentIndex)
    /\ UNCHANGED <<AAInitialized, NetworkTestBetterInterval, NetworkTestTimer,
                   CloudConnectivityWorks, lastTest>>
    /\ LoopNext

\* case <-dnc.Pending.PendTimer.C
PendTimerFire ==
    /\ PendTimer = "armed"
    /\ IfFrame
    /\ VerifyDevicePortConfig
    /\ UNCHANGED <<AAInitialized, NetworkTestBetterInterval,
                   NetworkTestBetterTimer, CloudConnectivityWorks, lastTest>>
    /\ LoopNext

\* What a DevicePortConfig subscription case leaves alone.
DPCFrame == UNCHANGED <<AAInitialized, NetworkTestBetterInterval,
                        NetworkTestTimer, NetworkTestBetterTimer,
                        CloudConnectivityWorks, lastTest>>

DPCModify(key, prios, portChoices) ==
    /\ IfFrame
    /\ \E prio \in prios, ports \in portChoices :
         HandleDPCModify(key, prio, ports)
    /\ lastEvent' = "DPCModify"
    /\ DPCFrame
    /\ LoopNext

DPCDelete(key) ==
    /\ key \in KeysOf(PortConfigList)
    /\ IfFrame
    /\ HandleDPCDelete(key)
    /\ lastEvent' = "DPCDelete"
    /\ DPCFrame
    /\ LoopNext

\* TimePriority of the candidates nim generates itself.
LastResortPriority == 0
ModelPriority == 2

\* TimePriority of a candidate from the override file or from zedagent: a
\* timestamp, the same as the model-derived candidate's or later.
ReceivedPriorities == ModelPriority..MaxPrio
SelfPriorities == {LastResortPriority, ModelPriority}

\* TimePriority is a time.Time, here in seconds since the epoch as
\* time.Unix(sec, 0) takes them.  The zero time.Time of a candidate that
\* sets none is January 1 of year 1, before the epoch.
ZeroTimePriority == -1

\* TimePriority of a candidate read from the override file: anything the
\* file holds, or the zero time when it holds none.
FilePriorities == {ZeroTimePriority} \cup (LastResortPriority..MaxPrio)

\* case change := <-subDevicePortConfigO.C
DPCModifyO(prios, portChoices) == DPCModify(KeyO, prios, portChoices)
DPCDeleteO == DPCDelete(KeyO)

\* case change := <-subDevicePortConfigS.C
DPCModifyS(prios, portChoices) == DPCModify(KeyS, prios, portChoices)
DPCDeleteS == DPCDelete(KeyS)

\* A zedagent case that is also in the loop waiting for AssignableAdapters.
DPCModifyAAnyLoop(prios, portChoices) == DPCModify(KeyA, prios, portChoices)

\* case change := <-subDevicePortConfigA.C: the steady-state loop only.
DPCModifyA(prios, portChoices) ==
    /\ loop = "main"
    /\ DPCModify(KeyA, prios, portChoices)
DPCDeleteA ==
    /\ loop = "main"
    /\ DPCDelete(KeyA)

\* case change := <-subAssignableAdapters.C
HandleAssignableAdaptersModify(initialized) ==
    /\ IfFrame
    /\ AAInitialized' = initialized
    /\ lastEvent' = "AAModify"
    /\ UNCHANGED <<engineVars, NetworkTestTimer, NetworkTestBetterTimer,
                   NetworkTestBetterInterval, CloudConnectivityWorks,
                   lastTest>>
    /\ LoopNext

AAModify == \E initialized \in BOOLEAN : HandleAssignableAdaptersModify(initialized)

\* The DevicePortConfig the current status was made from.
ConfigPorts(status) ==
    [i \in 1..Len(status.Ports) |->
       [IfName |-> status.Ports[i].IfName, IsMgmt |-> status.Ports[i].IsMgmt]]

\* DoDNSUpdate: publish ctx.DeviceNetworkStatus.
DoDNSUpdate == pubDNS' = DeviceNetworkStatus'

\* A handler that stores the status made again without publishing it.
HandleAddressChangeQuiet ==
    IF ~PendingInprogress
    THEN \E status \in MakeDeviceNetworkStatus(DeviceNetworkStatus.Key,
                          ConfigPorts(DeviceNetworkStatus), Dir') :
           /\ IF DeviceNetworkStatus # status
              THEN /\ DeviceNetworkStatus' = status
                   /\ lastEvent' = "AddrChangeUpdate"
                   /\ UNCHANGED pubDNS
              ELSE /\ lastEvent' = "AddrChangeNoChange"
                   /\ UNCHANGED <<DeviceNetworkStatus, pubDNS>>
           /\ UNCHANGED <<PortConfigList, CurrentIndex, NextDPCIndex, engine,
                          PendingInprogress, PendDNS, persisted, PendTimer,
                          sweep, listChanged, NetworkTestTimer>>
    ELSE LET dnStatus    == PendDNS
             pingTestDNS == checkIfAllDNSPortsHaveIPAddrs(dnStatus)
         IN  IF pingTestDNS
             THEN VerifyDevicePortConfig
             ELSE /\ lastEvent' = "AddrChangeWait"
                  /\ UNCHANGED <<engineVars, NetworkTestTimer>>

\* HandleAddressChange.  With nothing in progress the current status is made
\* again and published when it differs.  With a verification in progress the
\* status made again is dropped and the addresses are looked for in
\* Pending.PendDNS as it is.
HandleAddressChange ==
    IF ~PendingInprogress
    THEN \E status \in MakeDeviceNetworkStatus(DeviceNetworkStatus.Key,
                          ConfigPorts(DeviceNetworkStatus), Dir') :
           /\ IF DeviceNetworkStatus # status
              THEN /\ DeviceNetworkStatus' = status
                   /\ DoDNSUpdate
                   /\ lastEvent' = "AddrChangeUpdate"
              ELSE /\ lastEvent' = "AddrChangeNoChange"
                   /\ UNCHANGED <<DeviceNetworkStatus, pubDNS>>
           /\ UNCHANGED <<PortConfigList, CurrentIndex, NextDPCIndex, engine,
                          PendingInprogress, PendDNS, persisted, PendTimer,
                          sweep, listChanged, NetworkTestTimer>>
    ELSE LET dnStatus    == PendDNS
             pingTestDNS == checkIfAllDNSPortsHaveIPAddrs(dnStatus)
         IN  IF pingTestDNS
             THEN VerifyDevicePortConfig
             ELSE /\ lastEvent' = "AddrChangeWait"
                  /\ UNCHANGED <<engineVars, NetworkTestTimer>>

\* case change, ok := <-addrChanges: devicenetwork.AddrChange
AddrChange(newAddr, index, addr) ==
    LET r == IF newAddr THEN IfindexToAddrsAdd(ifindexToAddrs, index, addr)
             ELSE IfindexToAddrsDel(ifindexToAddrs, index, addr)
        changed == r.ret
    IN  /\ ifindexToAddrs' = r.cache
        /\ lastResult' = Result("AddrChange", AddrArg(addr), r.ret)
        /\ UNCHANGED <<ifindexToName, osLinks, logged, failing, geoVars>>
        /\ IF changed
           THEN HandleAddressChange
           ELSE /\ lastEvent' = "AddrChangeNone"
                /\ UNCHANGED <<engineVars, NetworkTestTimer>>
        /\ UNCHANGED <<AAInitialized, NetworkTestBetterInterval,
                       NetworkTestBetterTimer, CloudConnectivityWorks,
                       lastTest>>
        /\ LoopNext

\* The address events of a port that gets and loses one address that can be
\* used and one that is link-local.
PortAddrs == {IPNet(1, 2), IPNet(2, 2)}
AddrChangeEvent ==
    \E newAddr \in BOOLEAN, index \in Ifindexes, addr \in PortAddrs :
       AddrChange(newAddr, index, addr)

\* Configured NetworkTestBetterInterval: 0 disables the timer.
TestBetterIntervals == {0, 600}

\* State of Run() when it enters the wait for AssignableAdapters.
InitNim ==
    /\ loop = "waitAA"
    /\ AAInitialized = FALSE
    /\ PortConfigList = <<>>
    /\ CurrentIndex = -1
    /\ NextDPCIndex = 0
    /\ engine = "Idle"
    /\ PendingInprogress = FALSE
    /\ PendDNS = EmptyStatus
    /\ DeviceNetworkStatus = EmptyStatus
    /\ pubDNS = EmptyStatus
    /\ persisted = Persist(<<>>, -1)
    /\ CloudConnectivityWorks = TRUE
    /\ PendTimer = "stopped"
    /\ NetworkTestTimer = "armed"
    /\ NetworkTestBetterInterval \in TestBetterIntervals
    /\ NetworkTestBetterTimer =
         IF NetworkTestBetterInterval = 0 THEN "stopped" ELSE "armed"
    /\ lastEvent = "none"
    /\ lastTest = "none"
    /\ sweep = <<>>
    /\ listChanged = FALSE

\* No address was looked up yet; the clock is past the first refresh
\* interval, so that the zero time is long ago.
InitGeo ==
    /\ now = GeoRedoTime
    /\ publicIP = "A"
    /\ geoLookups = {}
    /\ geoLookedUp = EmptyMap

\* The directory once the link and the address the device starts with were
\* delivered.
InitIf ==
    /\ osLinks = Put(EmptyMap, 1, linkNameType("eth0", "device"))
    /\ ifindexToName = osLinks
    /\ ifindexToAddrs = Put(EmptyMap, 1, <<IPNet(1, 2)>>)
    /\ lastResult = NoResult
    /\ logged = ""
    /\ failing = {}
    /\ InitGeo

\* The directory of a device whose port has no address yet: AddrChangeInit
\* starts with an empty address map.
InitIfNoAddrs ==
    /\ osLinks = Put(EmptyMap, 1, linkNameType("eth0", "device"))
    /\ ifindexToName = osLinks
    /\ ifindexToAddrs = EmptyMap
    /\ lastResult = NoResult
    /\ logged = ""
    /\ failing = {}
    /\ InitGeo

\* ------------------------------------- consumers of DeviceNetworkStatus
\* A delivered DeviceNetworkStatus: its Testing flag and the number of its
\* non-link-local addresses.
DNSValues == [Testing : BOOLEAN, NumAddrs : 0..MaxAddrs]
EmptyDNS == [Testing |-> FALSE, NumAddrs |-> 0]
\* printOutput has printed nothing yet.
NoOutput == [Testing |-> FALSE, NumAddrs |-> -1]
DNSKeys == {"global", "other"}

CountLocalAddrAnyNoLinkLocal(status) == status.NumAddrs

\* The main loop is not in a send on countChange.
NoSend == -1

\* An updateDerivedLedCounter that hands the zedcloud counter on as it is.
updateDerivedLedCounterRaw(usable, counter) ==
    /\ derivedLedCounter' = IF usable = 0 THEN 1 ELSE counter
    /\ countChange' = derivedLedCounter'
    /\ ledUpdated' = TRUE

\* ledmanager: updateDerivedLedCounter with ctx.usableAddressCount and
\* ctx.ledCounter as the handler has set them; the derived counter is sent
\* to the blink goroutine over countChange, and the main loop waits in the
\* send until the goroutine takes it.
updateDerivedLedCounter(usable, counter) ==
    /\ derivedLedCounter' = IF usable = 0 THEN 1
                            ELSE IF counter < 2 THEN 2
                            ELSE counter
    /\ countChange' = derivedLedCounter'
    /\ ledUpdated' = TRUE

\* A handler that returns without a call of updateDerivedLedCounter.
LedQuiet == UNCHANGED <<derivedLedCounter, countChange, ledUpdated>>

\* ledmanager: the address count changed between zero and non-zero.
LedAddrCountStep(newAddrCount) ==
    IF \/ ledUsableAddressCount = 0 /\ newAddrCount # 0
       \/ ledUsableAddressCount # 0 /\ newAddrCount = 0
    THEN /\ ledUsableAddressCount' = newAddrCount
         /\ updateDerivedLedCounter(newAddrCount, ledCounter)
    ELSE UNCHANGED ledUsableAddressCount /\ LedQuiet

\* What a handler of the main loop leaves alone; the goroutine's variables
\* are its own.
LedMainFrame == UNCHANGED <<nimVars, ifVars, diagVars, wstVars, blinkCounter,
                            blinkPc, blinkI, restVars>>
LedFrame == LedMainFrame /\ UNCHANGED ledCounter

LedHandleDNSModify(key, status) ==
    /\ IF key # "global" \/ status.Testing \/ ledDNS = status
       THEN UNCHANGED <<ledDNS, ledUsableAddressCount>> /\ LedQuiet
       ELSE /\ ledDNS' = status
            /\ LedAddrCountStep(CountLocalAddrAnyNoLinkLocal(status))
    /\ LedFrame

LedHandleDNSDelete(key) ==
    /\ IF key # "global"
       THEN UNCHANGED <<ledDNS, ledUsableAddressCount>> /\ LedQuiet
       ELSE /\ ledDNS' = EmptyDNS
            /\ LedAddrCountStep(CountLocalAddrAnyNoLinkLocal(EmptyDNS))
    /\ LedFrame

\* diag: printOutput prints once the initial inputs have all arrived.
printOutput(status) ==
    diagOutput' = IF diagGotDNS' /\ diagGotOthers THEN status ELSE diagOutput

DiagFrame == UNCHANGED <<nimVars, ifVars, ledVars, wstVars, diagGotOthers,
                         restVars>>

DiagHandleDNSModify(key, status) ==
    /\ IF key # "global" \/ status.Testing \/ diagDNS = status
       THEN UNCHANGED <<diagDNS, diagOutput>>
       ELSE /\ diagDNS' = status
            /\ printOutput(status)
    /\ DiagFrame

DiagHandleDNSDelete(key) ==
    /\ IF key # "global"
       THEN UNCHANGED <<diagDNS, diagOutput>>
       ELSE /\ diagDNS' = EmptyDNS
            /\ printOutput(EmptyDNS)
    /\ DiagFrame

WstFrame == UNCHANGED <<nimVars, ifVars, ledVars, diagVars, restVars>>

WstHandleDNSModify(key, status) ==
    /\ IF key # "global" \/ wstDNS = status
       THEN UNCHANGED <<wstDNS, wstUsableAddressCount, DNSinitialized>>
       ELSE /\ wstDNS' = status
            /\ DNSinitialized' = TRUE
            /\ wstUsableAddressCount' = CountLocalAddrAnyNoLinkLocal(status)
    /\ wstDelivered' = (key = "global" \/ wstDelivered)
    /\ WstFrame

WstHandleDNSDelete(key) ==
    /\ IF key # "global"
       THEN UNCHANGED <<wstDNS, wstUsableAddressCount, DNSinitialized>>
       ELSE /\ wstDNS' = EmptyDNS
            /\ DNSinitialized' = FALSE
            /\ wstUsableAddressCount' = CountLocalAddrAnyNoLinkLocal(EmptyDNS)
    /\ wstDelivered' = (key # "global" /\ wstDelivered)
    /\ WstFrame

\* case change := <-subDeviceNetworkStatus.C, in each consumer
\* ledmanager: handleLedBlinkModify and handleLedBlinkDelete
LedBlinkKeys == {"ledconfig", "other"}
handleLedBlinkModify(key, BlinkCounter) ==
    /\ IF key # "ledconfig" \/ BlinkCounter = ledCounter
       THEN UNCHANGED ledCounter /\ LedQuiet
       ELSE /\ ledCounter' = BlinkCounter
            /\ updateDerivedLedCounter(ledUsableAddressCount, BlinkCounter)
    /\ UNCHANGED <<ledDNS, ledUsableAddressCount>>
    /\ LedMainFrame

handleLedBlinkDelete(key) ==
    /\ IF key # "ledconfig"
       THEN UNCHANGED ledCounter /\ LedQuiet
       ELSE /\ ledCounter' = 0
            /\ updateDerivedLedCounter(ledUsableAddressCount, 0)
    /\ UNCHANGED <<ledDNS, ledUsableAddressCount>>
    /\ LedMainFrame

\* The main loop of ledmanager takes its next event when it is not in a send.
LedReady == countChange = NoSend
LedDNSModify ==
    /\ LedReady
    /\ \E key \in DNSKeys, status \in DNSValues :
         LedHandleDNSModify(key, status)
LedDNSDelete ==
    /\ LedReady
    /\ \E key \in DNSKeys : LedHandleDNSDelete(key)
LedBlinkModify ==
    /\ LedReady
    /\ \E key \in LedBlinkKeys, BlinkCounter \in 0..MaxBlink :
         handleLedBlinkModify(key, BlinkCounter)
LedBlinkDelete ==
    /\ LedReady
    /\ \E key \in LedBlinkKeys : handleLedBlinkDelete(key)

\* TriggerBlinkOnDevice, one cycle: the select that takes a value a sender
\* is waiting with or else its default, counter rounds of the blink loop,
\* and the pause.
BlinkFrame == UNCHANGED <<nimVars, ifVars, diagVars, wstVars, restVars, ledDNS,
                          ledUsableAddressCount, ledCounter,
                          derivedLedCounter, ledUpdated>>
BlinkSelect ==
    /\ blinkPc = "select"
    /\ blinkCounter' = IF countChange # NoSend THEN countChange
                       ELSE blinkCounter
    /\ countChange' = NoSend
    /\ blinkI' = 0
    /\ blinkPc' = "blink"
    /\ BlinkFrame
\* A blink loop that runs once more than the counter says.
BlinkOnceInclusive ==
    /\ blinkPc = "blink"
    /\ IF blinkI <= blinkCounter
       THEN blinkI' = blinkI + 1 /\ blinkPc' = blinkPc
       ELSE blinkI' = blinkI /\ blinkPc' = "pause"
    /\ UNCHANGED <<blinkCounter, countChange>>
    /\ BlinkFrame
BlinkOnce ==
    /\ blinkPc = "blink"
    /\ IF blinkI < blinkCounter
       THEN blinkI' = blinkI + 1 /\ blinkPc' = blinkPc
       ELSE blinkI' = blinkI /\ blinkPc' = "pause"
    /\ UNCHANGED <<blinkCounter, countChange>>
    /\ BlinkFrame
BlinkPause ==
    /\ blinkPc = "pause"
    /\ blinkPc' = "select"
    /\ UNCHANGED <<blinkCounter, countChange, blinkI>>
    /\ BlinkFrame
TriggerBlinkOnDevice == BlinkSelect \/ BlinkOnce \/ BlinkPause
DiagDNSModify ==
    /\ diagGotDNS' = TRUE
    /\ \E key \in DNSKeys, status \in DNSValues :
         DiagHandleDNSModify(key, status)
DiagDNSDelete ==
    /\ diagGotDNS' = TRUE
    /\ \E key \in DNSKeys : DiagHandleDNSDelete(key)
WstDNSModify ==
    \E key \in DNSKeys, status \in DNSValues : WstHandleDNSModify(key, status)
WstDNSDelete == \E key \in DNSKeys : WstHandleDNSDelete(key)

InitConsumers ==
    /\ ledDNS = EmptyDNS
    /\ ledUsableAddressCount = 0
    /\ ledCounter = 0
    /\ derivedLedCounter = 0
    /\ blinkCounter = 0
    /\ countChange = NoSend
    /\ blinkPc = "select"
    /\ blinkI = 0
    /\ ledUpdated = FALSE
    /\ diagDNS = EmptyDNS
    /\ diagGotDNS = FALSE
    /\ diagGotOthers \in BOOLEAN
    /\ diagOutput = NoOutput
    /\ wstDNS = EmptyDNS
    /\ wstUsableAddressCount = 0
    /\ DNSinitialized = FALSE
    /\ wstDelivered = FALSE

\* ------------------------------------------------- GlobalConfig, iptables
\* UpdateSshAccess comes in two revisions: src/iptables/ssh.go, and the one
\* of src/unnamed/part_006 that lets the local host reach 4822 and the VNC
\* ports.
Revisions == {"ssh.go", "part_006"}

\* -j REJECT --reject-with tcp-reset for a destination port or port range,
\* and -s 127.0.0.1 -d 127.0.0.1 -j ACCEPT.  ip6tables is given the same
\* commands as iptables, so one chain stands for both.
RejectRule(startPort, endPort) ==
    [target |-> "REJECT", dport |-> <<startPort, endPort>>, local |-> FALSE]
AcceptLocalRule(startPort, endPort) ==
    [target |-> "ACCEPT", dport |-> <<startPort, endPort>>, local |-> TRUE]

\* iptables -A INPUT: append, also when the chain has the rule already.
IptableAppend(chain, rule) == Append(chain, rule)

\* iptables -D INPUT: delete the first rule that is equal; without one the
\* command fails and the chain stays.
IptableDelete(chain, rule) ==
    LET hits == {i \in 1..Len(chain) : chain[i] = rule}
    IN  IF hits = {} THEN chain
        ELSE LET k == CHOOSE i \in hits : \A j \in hits : i <= j
             IN  SubSeq(chain, 1, k - 1) \o SubSeq(chain, k + 1, Len(chain))

allowPortRange(chain, startPort, endPort) ==
    IptableDelete(chain, RejectRule(startPort, endPort))

dropPortRange(chain, startPort, endPort) ==
    IptableAppend(chain, RejectRule(startPort, endPort))

allowLocalPortRange(chain, startPort, endPort) ==
    IptableAppend(IptableAppend(chain, AcceptLocalRule(startPort, endPort)),
                  RejectRule(startPort, endPort))

\* An UpdateSshAccess that does nothing more on the first call.
UpdateSshAccessNoFirst(rev, chain, enable, first) ==
    IF enable THEN allowPortRange(chain, 22, 22)
    ELSE dropPortRange(chain, 22, 22)

\* UpdateSshAccess of revision rev.
UpdateSshAccess(rev, chain, enable, first) ==
    LET c1 == IF ~first THEN chain
              ELSE IF rev = "ssh.go"
              THEN dropPortRange(dropPortRange(chain, 8080, 8080), 4822, 4822)
              ELSE allowLocalPortRange(
                     allowLocalPortRange(dropPortRange(chain, 8080, 8080),
                                         4822, 4822),
                     5900, 5999)
    IN  IF enable THEN allowPortRange(c1, 22, 22)
        ELSE dropPortRange(c1, 22, 22)

UpdateVncAccess(chain, enable) ==
    IF enable THEN allowPortRange(chain, 5900, 5999)
    ELSE dropPortRange(chain, 5900, 5999)

\* The chain has a REJECT rule for exactly this port or port range.
HasReject(chain, startPort, endPort) ==
    \E i \in 1..Len(chain) : chain[i] = RejectRule(startPort, endPort)

\* The INPUT chain rejects a TCP connection to the port: the first rule that
\* matches it is a REJECT; without a match the connection is accepted.
Matches(rule, port, fromLocal) ==
    /\ rule.dport[1] <= port /\ port <= rule.dport[2]
    /\ rule.local => fromLocal
Rejects(chain, port, fromLocal) ==
    LET hits == {i \in 1..Len(chain) : Matches(chain[i], port, fromLocal)}
    IN  /\ hits # {}
        /\ chain[CHOOSE i \in hits : \A j \in hits : i <= j].target = "REJECT"

GCKeys == {"global", "other"}
GlobalConfigs == [SshAccess : BOOLEAN, AllowAppVnc : BOOLEAN]

\* What a GlobalConfig event leaves alone.
GCFrame == UNCHANGED <<nimVars, ifVars, consumerVars, fwRev, clientVars,
                       beatVars, pbrVars>>

\* The longest run of rules one event appends.
MostAppended == 7

\* handleGlobalConfigModify; in a modify for "global" the subscription holds
\* the item, so HandleGlobalConfig returns it.
handleGlobalConfigModify(key, gcp) ==
    IF key # "global"
    THEN UNCHANGED <<GCInitialized, sshAccess, allowAppVnc, iptables>>
    ELSE LET first == ~GCInitialized
             doSsh == gcp.SshAccess # sshAccess \/ first
             doVnc == gcp.AllowAppVnc # allowAppVnc \/ first
             c1 == IF doSsh
                   THEN UpdateSshAccess(fwRev, iptables, gcp.SshAccess, first)
                   ELSE iptables
             c2 == IF doVnc THEN UpdateVncAccess(c1, gcp.AllowAppVnc)
                   ELSE c1
         IN  /\ sshAccess' = IF doSsh THEN gcp.SshAccess ELSE sshAccess
             /\ allowAppVnc' = IF doVnc THEN gcp.AllowAppVnc
                               ELSE allowAppVnc
             /\ iptables' = c2
             /\ GCInitialized' = TRUE

handleGlobalConfigDelete(key) ==
    IF key # "global"
    THEN UNCHANGED <<GCInitialized, sshAccess, allowAppVnc, iptables>>
    ELSE /\ GCInitialized' = FALSE
         /\ UNCHANGED <<sshAccess, allowAppVnc, iptables>>

handleGlobalConfigSynchronized(done) ==
    IF ~done
    THEN UNCHANGED <<GCInitialized, sshAccess, allowAppVnc, iptables>>
    ELSE LET first == ~GCInitialized
         IN  /\ iptables' = IF first
                            THEN UpdateSshAccess(fwRev, iptables, sshAccess,
                                                 first)
                            ELSE iptables
             /\ GCInitialized' = TRUE
             /\ UNCHANGED <<sshAccess, allowAppVnc>>

\* case change := <-subGlobalConfig.C
GCModify ==
    /\ Len(iptables) + MostAppended <= MaxRules
    /\ \E key \in GCKeys, gcp \in GlobalConfigs :
         handleGlobalConfigModify(key, gcp)
    /\ GCFrame

GCDelete ==
    /\ \E key \in GCKeys : handleGlobalConfigDelete(key)
    /\ GCFrame

GCSynchronized ==
    /\ Len(iptables) + MostAppended <= MaxRules
    /\ \E done \in BOOLEAN : handleGlobalConfigSynchronized(done)
    /\ GCFrame

\* Run() before the first GlobalConfig event: "Kernel default - no iptables
\* filters".
InitFw(revs) ==
    /\ GCInitialized = FALSE
    /\ sshAccess = TRUE
    /\ allowAppVnc = FALSE
    /\ iptables = <<>>
    /\ fwRev \in revs

\* client: the context Run() builds, no call of ledmanager made yet.
NoLed == 0
InitClient ==
    /\ clientDNS = EmptyStatus
    /\ clientUsableAddressCount = 0
    /\ clientLed = NoLed

\* nim in its select loops, the model's file found, StillRunning just called
\* (nim.go:141).
InitBeat(phases, files) ==
    /\ phase \in phases
    /\ stillRunningC = FALSE
    /\ missedTicks = 0
    /\ tries = 0
    /\ model = "hw"
    /\ dncFiles \in files

InitSelect == InitBeat({"select"}, {{"hw"}})

\* PbrInit: flushRules(0), and no address event handled yet.
InitPbr ==
    /\ rules = {}
    /\ calls = <<>>
    /\ routes = {}
    /\ freePorts = {"eth0"}

InitRest == InitFw({"ssh.go"}) /\ InitClient /\ InitSelect /\ InitPbr

\* ---------------------------------------------------------- specifications
Init == InitNim /\ InitIf /\ InitConsumers /\ InitRest /\ diagGotOthers = TRUE

\* The select loops of Run(), each source delivering one configuration.
Next ==
    \/ DPCModifyO({MaxPrio}, {<<MgmtPort>>})
    \/ DPCDeleteO
    \/ DPCModifyS({ModelPriority}, {<<MgmtPort>>})
    \/ DPCDeleteS
    \/ DPCModifyA({MaxPrio}, {<<MgmtPort>>})
    \/ DPCDeleteA
    \/ AAModify
    \/ PendTimerFire
    \/ NetworkTestTimerFire
    \/ NetworkTestBetterTimerFire

Spec == Init /\ [][Next]_vars

\* The Port Config Store and the verification engine while Run() waits for
\* AssignableAdapters, with override and self-generated candidates of every
\* priority and port set; the periodic tests do not fire.
NextStore ==
    \/ DPCModifyO(ReceivedPriorities, PortChoices)
    \/ DPCDeleteO
    \/ DPCModifyS(SelfPriorities, PortChoices)
    \/ DPCDeleteS
    \/ PendTimerFire

SpecStore == Init /\ [][NextStore]_vars

\* The Port Config Store with the candidates nim generates itself next to an
\* override file of any TimePriority.
NextPrio ==
    \/ DPCModifyO(FilePriorities, {<<MgmtPort>>})
    \/ DPCDeleteO
    \/ DPCModifyS(SelfPriorities, {<<MgmtPort>>})
    \/ DPCDeleteS
    \/ PendTimerFire

SpecPrio == Init /\ [][NextPrio]_vars

\* The steady-state loop with the outcomes of the periodic probe told apart,
\* for as long as the process runs.
NextProbe ==
    \/ Alive /\ DPCModifyS({ModelPriority}, {<<MgmtPort>>})
    \/ Alive /\ DPCModifyO({MaxPrio}, {<<MgmtPort>>})
    \/ Alive /\ AAModify
    \/ Alive /\ PendTimerFire
    \/ NetworkTestTimerProbe

SpecProbe == Init /\ [][NextProbe]_vars

\* The GlobalConfig events and what they make of the INPUT chain, for either
\* revision of UpdateSshAccess.
InitGC ==
    /\ InitNim /\ NetworkTestBetterInterval = 0
    /\ InitIfNoAddrs
    /\ InitConsumers /\ diagGotOthers = TRUE
    /\ InitFw(Revisions)
    /\ InitClient
    /\ InitSelect
    /\ InitPbr

NextGC ==
    \/ GCModify
    \/ GCDelete
    \/ GCSynchronized

SpecGC == InitGC /\ [][NextGC]_vars

\* The consumers of DeviceNetworkStatus, each handling what nim publishes.
InitDNS == InitNim /\ InitIf /\ InitConsumers /\ InitRest

NextDNS ==
    \/ LedDNSModify
    \/ LedDNSDelete
    \/ DiagDNSModify
    \/ DiagDNSDelete
    \/ WstDNSModify
    \/ WstDNSDelete
    \/ TriggerBlinkOnDevice

SpecDNS == InitDNS /\ [][NextDNS]_vars

\* Run() on a device whose port has no address yet.
InitAddr == InitNim /\ InitIfNoAddrs /\ InitConsumers /\ InitRest /\ diagGotOthers = TRUE

\* What a call of the interface directory leaves alone.
DirFrame == UNCHANGED <<nimVars, consumerVars, restVars, failing, geoVars>>


\* PbrAddrChange: IfindexToAddrsAdd for a new address
IfAddrsAddOn(indexes, nets) ==
    \E index \in indexes, addr \in nets :
       LET r == IfindexToAddrsAdd(ifindexToAddrs, index, addr)
       IN  /\ ifindexToAddrs' = r.cache
           /\ lastResult' = Result("IfindexToAddrsAdd", AddrArg(addr), r.ret)
           /\ UNCHANGED <<ifindexToName, osLinks, logged>>
           /\ DirFrame

\* PbrAddrChange: IfindexToAddrsDel for an address that went away
IfAddrsDelOn(indexes, nets) ==
    \E index \in indexes, addr \in nets :
       LET r == IfindexToAddrsDel(ifindexToAddrs, index, addr)
       IN  /\ ifindexToAddrs' = r.cache
           /\ lastResult' = Result("IfindexToAddrsDel", AddrArg(addr), r.ret)
           /\ UNCHANGED <<ifindexToName, osLinks, logged>>
           /\ DirFrame

\* LinkChange, RTM_NEWLINK: IfindexToNameAdd
IfLinkAddOn(indexes, linkNames, linkTypes) ==
    \E index \in indexes, linkName \in linkNames, linkType \in linkTypes :
       LET r == IfindexToNameAdd(ifindexToName, index, linkName, linkType)
       IN  /\ ifindexToName' = r.cache
           /\ lastResult' = Result("IfindexToNameAdd",
                                   LinkArg(index, linkName, linkType), r.ret)
           /\ logged' = r.log
           /\ UNCHANGED <<ifindexToAddrs, osLinks>>
           /\ DirFrame

\* LinkChange, RTM_DELLINK: IfindexToNameDel
IfLinkDelOn(indexes, linkNames) ==
    \E index \in indexes, linkName \in linkNames :
       LET r == IfindexToNameDel(ifindexToName, index, linkName)
       IN  /\ ifindexToName' = r.cache
           /\ lastResult' = Result("IfindexToNameDel",
                                   LinkArg(index, linkName, ""), r.ret)
           /\ logged' = r.log
           /\ UNCHANGED <<ifindexToAddrs, osLinks>>
           /\ DirFrame

IfLinkAdd == IfLinkAddOn(Ifindexes, LinkNames, LinkTypes)
IfLinkDel == IfLinkDelOn(Ifindexes, LinkNames)

\* The kernel gets, renames or loses a link; two links never share a name.
OsLinkChange ==
    /\ \/ \E index \in Ifindexes, linkName \in LinkNames :
            /\ \A i \in DOMAIN osLinks \ {index} :
                  osLinks[i].linkName # linkName
            /\ osLinks' = Put(osLinks, index, linkNameType(linkName, "device"))
       \/ \E index \in DOMAIN osLinks : osLinks' = Drop(osLinks, index)
    /\ lastResult' = Result("kernel", NoArg, TRUE)
    /\ UNCHANGED <<ifindexToName, ifindexToAddrs, logged>>
    /\ DirFrame

\* A caller asks for the name of an index.
LookupName ==
    \E index \in Ifindexes :
       /\ lastResult' = LinkAnswer(index,
                             IfindexToName(ifindexToName, osLinks, index))
       /\ UNCHANGED <<ifindexToName, ifindexToAddrs, osLinks, logged>>
       /\ DirFrame

\* A caller asks for the index of a name.
LookupIndex ==
    \E ifname \in LinkNames :
       \E r \in IfnameToIndex(ifindexToName, osLinks, ifname) :
          /\ lastResult' = IndexAnswer("IfnameToIndex", ifname, r)
          /\ UNCHANGED <<ifindexToName, ifindexToAddrs, osLinks, logged>>
          /\ DirFrame

\* The same with the earlier revision of IfnameToIndex.
LookupIndexUplink ==
    \E ifname \in LinkNames :
       \E r \in IfnameToIndexUplink(ifindexToName, ifname) :
          /\ lastResult' = IndexAnswer("IfnameToIndexUplink", ifname, r)
          /\ UNCHANGED <<ifindexToName, ifindexToAddrs, osLinks, logged>>
          /\ DirFrame

\* The name map of the interface directory under link events, with callers
\* looking names and indexes up while the kernel's links change.
NextIfNames ==
    \/ IfLinkAdd
    \/ IfLinkDel
    \/ OsLinkChange
    \/ LookupName
    \/ LookupIndex
    \/ LookupIndexUplink

SpecIfNames == InitAddr /\ [][NextIfNames]_vars

IfAddrsAdd == IfAddrsAddOn(Ifindexes, IPNets)
IfAddrsDel == IfAddrsDelOn(Ifindexes, IPNets)

\* The address map of the interface directory under address events.
NextIfAddrs ==
    \/ IfAddrsAdd
    \/ IfAddrsDel

SpecIfAddrs == InitAddr /\ [][NextIfAddrs]_vars

\* The configurations MakeDeviceNetworkStatus is called with: up to two
\* ports, the first one a management port.
Port(ifname, isMgmt) == [IfName |-> ifname, IsMgmt |-> isMgmt]
SynthConfigs ==
    {<<>>, <<Port("eth0", TRUE)>>}
      \cup {<<Port(n, TRUE), Port(m, FALSE)>> :
               <<n, m>> \in {nm \in LinkNames \X LinkNames : nm[1] # nm[2]}}

\* A caller makes the status of a configuration and keeps it.
Synthesize ==
    \E ports \in SynthConfigs :
       \E status \in MakeDeviceNetworkStatus(KeyS, ports, Dir) :
          /\ DeviceNetworkStatus' = status
          /\ lastResult' = Result("MakeDeviceNetworkStatus", PortsArg(ports),
                                  FALSE)
          /\ UNCHANGED <<loop, AAInitialized, PortConfigList, CurrentIndex,
                         NextDPCIndex, engine, PendingInprogress, PendDNS,
                         pubDNS, persisted, CloudConnectivityWorks, PendTimer,
                         NetworkTestTimer, NetworkTestBetterTimer,
                         NetworkTestBetterInterval, lastEvent, lastTest,
                         sweep, listChanged>>
          /\ UNCHANGED <<ifindexToName, ifindexToAddrs, osLinks, logged,
                         failing, geoVars, consumerVars, restVars>>

\* A call for DHCP data or proxy configuration starts or stops failing.
PortCallChange ==
    /\ \E call \in PortCalls :
          failing' = IF call \in failing THEN failing \ {call}
                     ELSE failing \cup {call}
    /\ lastResult' = Result("environment", NoArg, TRUE)
    /\ UNCHANGED <<ifindexToName, ifindexToAddrs, osLinks, logged,
                   geoVars, nimVars, consumerVars, restVars>>

\* MakeDeviceNetworkStatus over the configurations and the directories it
\* can meet: the kernel's links come and go, the first link gets and loses an
\* address, the calls for port data fail or not.
NextSynth ==
    \/ Synthesize
    \/ OsLinkChange
    \/ IfAddrsAddOn({1}, {IPNet(1, 2)})
    \/ IfAddrsDelOn({1}, {IPNet(1, 2)})
    \/ PortCallChange

InitSynth ==
    /\ InitNim /\ InitConsumers /\ InitRest
    /\ NetworkTestBetterInterval = 0
    /\ osLinks = Put(EmptyMap, 1, linkNameType("eth0", "device"))
    /\ ifindexToName = EmptyMap
    /\ ifindexToAddrs = EmptyMap
    /\ lastResult = NoResult
    /\ logged = ""
    /\ failing = {}
    /\ InitGeo

SpecSynth == InitSynth /\ [][NextSynth]_vars

\* ------------------------------------------------------------- geolocation
\* The entries of a status with the geolocation fields at their zero values.
WithGeo(status) ==
    [status EXCEPT !.Ports =
       [i \in 1..Len(status.Ports) |->
          [status.Ports[i] EXCEPT !.AddrInfoList =
             [j \in 1..Len(status.Ports[i].AddrInfoList) |->
                [Addr |-> status.Ports[i].AddrInfoList[j].Addr,
                 Geo |-> "", LastGeoTimestamp |-> 0]]]]]

\* lookupPortStatusAddr: the entries of the address on the port of that name.
lookupPortStatusAddr(status, ifname, addr) ==
    UNION {{status.Ports[i].AddrInfoList[j] :
              j \in {k \in 1..Len(status.Ports[i].AddrInfoList) :
                       status.Ports[i].AddrInfoList[k].Addr = addr}} :
           i \in {p \in 1..Len(status.Ports) :
                    status.Ports[p].IfName = ifname}}

\* "Preserve geo info for existing interface and IP address"
PreserveGeo(globalStatus, oldStatus) ==
    [globalStatus EXCEPT !.Ports =
       [i \in 1..Len(globalStatus.Ports) |->
          [globalStatus.Ports[i] EXCEPT !.AddrInfoList =
             [j \in 1..Len(globalStatus.Ports[i].AddrInfoList) |->
                LET ai   == globalStatus.Ports[i].AddrInfoList[j]
                    oais == lookupPortStatusAddr(oldStatus,
                                globalStatus.Ports[i].IfName, ai.Addr)
                IN  IF oais = {} THEN ai
                    ELSE LET oai == CHOOSE o \in oais : TRUE
                         IN  [ai EXCEPT !.Geo = oai.Geo,
                                 !.LastGeoTimestamp = oai.LastGeoTimestamp]]]]]

\* What ipinfo.MyIPWithOptions answers.
IpInfo == [IP |-> publicIP, err |-> publicIP = "none"]

\* UpdateDeviceNetworkGeo asks ipinfo for this entry.
GeoDue(isMgmt, ai, timelimit, t) ==
    /\ isMgmt
    /\ ~IsLinkLocalUnicast(ai.Addr)
    /\ ~(t - ai.LastGeoTimestamp < timelimit)

\* UpdateDeviceNetworkGeo at time t with ipinfo answering info: the status
\* after it, "true if anything might have changed" and the addresses ipinfo
\* was asked for.  Geo and LastGeoTimestamp are set only when the answer is
\* another IP than the one the entry has.
UpdateDeviceNetworkGeo(timelimit, globalStatus, t, info) ==
    LET upd(isMgmt, ai) ==
          IF GeoDue(isMgmt, ai, timelimit, t) /\ ~info.err /\ info.IP # ai.Geo
          THEN [ai EXCEPT !.Geo = info.IP, !.LastGeoTimestamp = t]
          ELSE ai
        status == [globalStatus EXCEPT !.Ports =
          [i \in 1..Len(globalStatus.Ports) |->
             [globalStatus.Ports[i] EXCEPT !.AddrInfoList =
                [j \in 1..Len(globalStatus.Ports[i].AddrInfoList) |->
                   upd(globalStatus.Ports[i].IsMgmt,
                       globalStatus.Ports[i].AddrInfoList[j])]]]]
    IN  [status  |-> status,
         change  |-> status # globalStatus,
         lookups |-> UNION {
            {globalStatus.Ports[i].AddrInfoList[j].Addr :
               j \in {k \in 1..Len(globalStatus.Ports[i].AddrInfoList) :
                        GeoDue(globalStatus.Ports[i].IsMgmt,
                               globalStatus.Ports[i].AddrInfoList[k],
                               timelimit, t)}} :
            i \in 1..Len(globalStatus.Ports)}]

\* MakeDeviceNetworkStatus with its geolocation part: the entries of the
\* status st get the geolocation of oldStatus, then the "immediate check"
\* with a time limit of one second.
MakeDeviceNetworkStatusGeo(st, oldStatus, t, info) ==
    UpdateDeviceNetworkGeo(1, PreserveGeo(WithGeo(st), oldStatus), t, info)

\* The times ipinfo was asked, after a step that asked for lookups.
LookedUp(lookups) ==
    [a \in DOMAIN geoLookedUp \cup lookups |->
       IF a \in lookups THEN now ELSE geoLookedUp[a]]

GeoFrame == UNCHANGED <<loop, AAInitialized, PortConfigList, CurrentIndex,
                        NextDPCIndex, engine, PendingInprogress, PendDNS,
                        persisted, CloudConnectivityWorks, PendTimer,
                        NetworkTestTimer, NetworkTestBetterTimer,
                        NetworkTestBetterInterval, lastTest, sweep,
                        listChanged, consumerVars, restVars>>

\* case change, ok := <-addrChanges with nothing in progress: an address
\* change that changed the map has the status of the port made again, and
\* published when it differs.
GeoAddrChange ==
    \E newAddr \in BOOLEAN, index \in Ifindexes :
       LET addr == IPNet(1, 2)
           r == IF newAddr
                THEN IfindexToAddrsAdd(ifindexToAddrs, index, addr)
                ELSE IfindexToAddrsDel(ifindexToAddrs, index, addr)
       IN  /\ ifindexToAddrs' = r.cache
           /\ lastResult' = Result("AddrChange", AddrArg(addr), r.ret)
           /\ UNCHANGED <<ifindexToName, osLinks, logged, failing, now,
                          publicIP>>
           /\ IF r.ret
              THEN \E st \in MakeDeviceNetworkStatus(KeyS, <<MgmtPort>>, Dir') :
                     LET g == MakeDeviceNetworkStatusGeo(st,
                                 DeviceNetworkStatus, now, IpInfo)
                     IN  /\ DeviceNetworkStatus' = g.status
                         /\ pubDNS' = IF g.status # DeviceNetworkStatus
                                      THEN g.status ELSE pubDNS
                         /\ geoLookups' = g.lookups
                         /\ geoLookedUp' = LookedUp(g.lookups)
                         /\ lastEvent' = "MakeDeviceNetworkStatus"
              ELSE /\ lastEvent' = "AddrChangeNone"
                   /\ UNCHANGED <<DeviceNetworkStatus, pubDNS, geoLookups,
                                  geoLookedUp>>
           /\ GeoFrame

\* case <-geoTimer.C
GeoTimerFire ==
    LET r == UpdateDeviceNetworkGeo(GeoRedoTime, DeviceNetworkStatus, now,
                                    IpInfo)
    IN  /\ DeviceNetworkStatus' = r.status
        /\ pubDNS' = IF r.change THEN r.status ELSE pubDNS
        /\ geoLookups' = r.lookups
        /\ geoLookedUp' = LookedUp(r.lookups)
        /\ lastEvent' = "geoTimer"
        /\ UNCHANGED <<ifindexToName, ifindexToAddrs, osLinks, lastResult,
                       logged, failing, now, publicIP>>
        /\ GeoFrame

\* A second passes.
Tick ==
    /\ now < MaxClock
    /\ now' = now + 1
    /\ lastEvent' = "tick"
    /\ UNCHANGED <<DeviceNetworkStatus, pubDNS, geoLookups, geoLookedUp,
                   publicIP, ifindexToName, ifindexToAddrs, osLinks,
                   lastResult, logged, failing>>
    /\ GeoFrame

\* The device comes to be seen under another public address, or ipinfo stops
\* or starts answering.
PublicIPs == {"none", "A", "B"}
PublicIPChange ==
    /\ publicIP' \in PublicIPs \ {publicIP}
    /\ lastEvent' = "ipinfo"
    /\ UNCHANGED <<DeviceNetworkStatus, pubDNS, geoLookups, geoLookedUp,
                   now, ifindexToName, ifindexToAddrs, osLinks,
                   lastResult, logged, failing>>
    /\ GeoFrame

\* The geolocation of the addresses of the management port while time
\* passes: the port and another interface get and lose an address, the geo
\* timer fires.
NextGeo ==
    \/ GeoAddrChange
    \/ GeoTimerFire
    \/ Tick
    \/ PublicIPChange

InitGeoStatus == InitAddr /\ NetworkTestBetterInterval = 0

SpecGeo == InitGeoStatus /\ [][NextGeo]_vars

\* The status of the port made again on address events while time passes
\* and the calls for port data fail or not: ipinfo keeps its answer.
NextIdem ==
    \/ GeoAddrChange
    \/ Tick
    \/ PortCallChange

SpecIdem == InitGeoStatus /\ [][NextIdem]_vars

\* The select loop while the port of a self-generated configuration gets and
\* loses addresses.
NextAddr ==
    \/ DPCModifyS({ModelPriority}, {<<MgmtPort>>})
    \/ DPCModifyO({MaxPrio}, {<<MgmtPort>>})
    \/ PendTimerFire
    \/ AddrChangeEvent

SpecAddr == InitAddr /\ [][NextAddr]_vars

\* ------------------------------------------------------------- properties
\* C1: the periodic test calls RestartVerify only on a failure that follows a
\* failed periodic test (CloudConnectivityWorks already false) with no
\* verification in progress; a failure after no test or after a passed one
\* only sets CloudConnectivityWorks to false and leaves the engine alone; a
\* passing test sets CloudConnectivityWorks to true.
DebounceRestart ==
    /\ [](CloudConnectivityWorks <=> lastTest # "failed")
    /\ [][NetworkTestTimerFire =>
            /\ lastEvent' = "NetworkTestRestart" =>
                 /\ lastTest = "failed" /\ lastTest' = "failed"
                 /\ ~CloudConnectivityWorks
                 /\ ~PendingInprogress
            /\ lastEvent' # "NetworkTestRestart" => UNCHANGED engineVars
            /\ lastTest' = "failed" /\ lastTest # "failed" =>
                 /\ CloudConnectivityWorks' = FALSE
                 /\ UNCHANGED engineVars
            /\ lastTest' = "passed" =>
                 /\ CloudConnectivityWorks' = TRUE
                 /\ UNCHANGED engineVars
            /\ lastTest' = "failed" /\ lastTest = "failed"
                 /\ ~PendingInprogress =>
                 /\ lastEvent' = "NetworkTestRestart"
                 /\ NextDPCIndex' = 0
                 /\ sweep' = <<>>]_vars

\* Two failed tests in a row restarted the verification of a non-empty list.
DebounceRestartReached ==
    /\ lastEvent = "NetworkTestRestart"
    /\ lastTest = "failed"
    /\ engine = "Testing"
    /\ NextDPCIndex = 0

\* C2: a firing of the test-better timer calls RestartVerify exactly when
\* NextDPCIndex > 0, and a firing at index 0 changes no engine state; with
\* NetworkTestBetterInterval 0 the timer is stopped and no firing occurs.
TestBetterOnlyAboveZero ==
    /\ [][NetworkTestBetterTimerFire =>
            IF NextDPCIndex > 0
            THEN /\ lastEvent' = "TestBetterRestart"
                 /\ NextDPCIndex' = 0
                 /\ engine' = "Testing"
                 /\ PendingInprogress'
                 /\ sweep' = <<>>
            ELSE /\ lastEvent' = "TestBetterIgnored"
                 /\ UNCHANGED engineVars]_vars
    /\ [](NetworkTestBetterInterval = 0 =>
            /\ NetworkTestBetterTimer = "stopped"
            /\ lastEvent \notin {"TestBetterIgnored", "TestBetterRestart"})

\* The test-better timer fired above index 0 and verification restarted.
TestBetterRestartReached ==
    /\ lastEvent = "TestBetterRestart"
    /\ NetworkTestBetterInterval # 0
    /\ engine = "Testing"
    /\ NextDPCIndex = 0
    /\ CurrentIndex > 0

\* C3: after every firing of the test-better timer, ignored or not, the timer
\* is armed again.
TestBetterRearmed ==
    [][NetworkTestBetterTimerFire => NetworkTestBetterTimer' = "armed"]_vars

\* C4: after every firing of the network-test timer, in each of its four
\* outcomes, the timer is armed again.
NetworkTestRearmed ==
    [][NetworkTestTimerFire => NetworkTestTimer' = "armed"]_vars

\* C5: a DeviceNetworkStatus marked Testing, handled by ledmanager, diag or
\* wstunnelclient, leaves the consumer's stored status, usable-address
\* count, initialized flag and derived outputs unchanged.
TestingStatusIgnored ==
    [][\A key \in DNSKeys, status \in DNSValues :
         status.Testing =>
           /\ LedHandleDNSModify(key, status) => UNCHANGED ledVars
           /\ DiagHandleDNSModify(key, status) =>
                UNCHANGED <<diagDNS, diagOutput>>
           /\ WstHandleDNSModify(key, status)
                => UNCHANGED <<wstDNS, wstUsableAddressCount,
                               DNSinitialized>>]_vars

IsSortedUnique(list) ==
    /\ \A i, j \in 1..Len(list) : i < j => Before(list[i], list[j])
    /\ \A i, j \in 1..Len(list) : list[i].Key = list[j].Key => i = j

\* C7: the candidate list is sorted by descending priority with one entry
\* per source key, and stays so under any upsertCandidate or removeCandidate;
\* upserting a source key already present keeps the length of the list.
StoreSortedUnique ==
    /\ IsSortedUnique(PortConfigList)
    /\ \A key \in Keys :
         /\ IsSortedUnique(removeCandidate(PortConfigList, key))
         /\ key \notin KeysOf(removeCandidate(PortConfigList, key))
         /\ \A prio \in 0..MaxPrio, ports \in PortChoices :
              LET list2 == upsertCandidate(PortConfigList, key, prio, ports)
              IN  /\ IsSortedUnique(list2)
                  /\ key \in KeysOf(list2)
                  /\ key \in KeysOf(PortConfigList) =>
                       Len(list2) = Len(PortConfigList)

\* An upsert left two candidates of equal priority in the list, ordered by
\* source precedence.
StoreHoldsTwoSorted ==
    /\ lastEvent = "DPCModify"
    /\ Len(PortConfigList) >= 2
    /\ PortConfigList[1].TimePriority = PortConfigList[2].TimePriority
    /\ PortConfigList[1].Key = KeyO
    /\ PortConfigList[2].Key = KeyS

\* C8: with no candidate inserted or removed since RestartVerify, the probes
\* made so far are of indexes 0, 1, ... in order, each once, never more than
\* the list has candidates, and in Exhausted every candidate was probed.
SweepVisitsEachOnce ==
    /\ ~listChanged /\ engine = "Testing" =>
         sweep = [i \in 1..NextDPCIndex |-> i - 1]
    /\ ~listChanged /\ engine = "Exhausted" =>
         sweep = [i \in 1..Len(PortConfigList) |-> i - 1]
    /\ ~listChanged => Len(sweep) <= Len(PortConfigList)

\* A sweep over two or more candidates ended in Exhausted.
SweepExhausted ==
    /\ engine = "Exhausted"
    /\ ~listChanged
    /\ Len(sweep) >= 2
    /\ NextDPCIndex = Len(PortConfigList) - 1

\* C9: a successful probe makes the pending index the CurrentIndex, records
\* lastSucceeded on that candidate, publishes its status with Testing false,
\* persists the list and leaves the engine Idle with nothing in progress;
\* CurrentIndex comes to name another candidate only by such a success.
AcceptMakesPendingCurrent ==
    [][/\ lastEvent' = "VerifyAccept" =>
            /\ engine = "Testing"
            /\ CurrentIndex' = NextDPCIndex
            /\ KeysOf(PortConfigList') = KeysOf(PortConfigList)
            /\ At(PortConfigList', NextDPCIndex).LastSucceeded = TimeNow
            /\ DeviceNetworkStatus' \in
                 Materialize(At(PortConfigList, NextDPCIndex), Dir')
            /\ pubDNS' = DeviceNetworkStatus'
            /\ pubDNS'.Testing = FALSE
            /\ persisted' = Persist(PortConfigList', CurrentIndex')
            /\ engine' = "Idle"
            /\ ~PendingInprogress'
       /\ KeyAtIndex(PortConfigList', CurrentIndex')
            \notin {"none", KeyAtIndex(PortConfigList, CurrentIndex)} =>
            /\ lastEvent' = "VerifyAccept"
            /\ At(PortConfigList', CurrentIndex').LastSucceeded = TimeNow]_vars

\* A fallback candidate was accepted after the first one failed.
FallbackAccepted ==
    /\ lastEvent = "VerifyAccept"
    /\ engine = "Idle"
    /\ CurrentIndex = 1
    /\ At(PortConfigList, 0).LastFailed = TimeNow
    /\ At(PortConfigList, 1).LastSucceeded = TimeNow

\* C10: a failed probe records lastFailed and the error on the pending
\* candidate; with a lower-priority candidate left the pending index moves
\* to it and the engine stays Testing, otherwise the engine is Exhausted
\* with the pending index held; the pending index never decreases.
FailAdvancesOrExhausts ==
    [][lastEvent' = "VerifyFail" =>
         /\ engine = "Testing"
         /\ At(PortConfigList', NextDPCIndex).LastFailed = TimeNow
         /\ At(PortConfigList', NextDPCIndex).LastError # ""
         /\ UNCHANGED CurrentIndex
         /\ NextDPCIndex' >= NextDPCIndex
         /\ IF NextDPCIndex + 1 < Len(PortConfigList)
            THEN /\ NextDPCIndex' = NextDPCIndex + 1
                 /\ engine' = "Testing"
                 /\ PendingInprogress'
                 /\ PendDNS'.Key = KeyAtIndex(PortConfigList, NextDPCIndex')
                 /\ PendDNS'.Testing
            ELSE /\ NextDPCIndex' = NextDPCIndex
                 /\ engine' = "Exhausted"
                 /\ ~PendingInprogress']_vars

\* A failed probe moved the verification on to the second candidate.
FailAdvanced ==
    /\ lastEvent = "VerifyFail"
    /\ engine = "Testing"
    /\ NextDPCIndex = 1
    /\ At(PortConfigList, 0).LastFailed = TimeNow

\* C11: deleting the candidate at CurrentIndex unsets CurrentIndex, takes the
\* engine out of Idle and restarts the verification with pending index 0;
\* deleting another candidate leaves CurrentIndex on the same candidate.
DeleteCurrentRestarts ==
    [][lastEvent' = "DPCDelete" =>
         LET cur == KeyAtIndex(PortConfigList, CurrentIndex)
         IN  IF cur # "none" /\ cur \notin KeysOf(PortConfigList')
             THEN /\ CurrentIndex' = -1
                  /\ persisted'.CurrentIndex = -1
                  /\ engine' # "Idle"
                  /\ NextDPCIndex' = 0
                  /\ sweep' = <<>>
                  /\ PortConfigList' # <<>> =>
                       engine' = "Testing" /\ PendingInprogress'
             ELSE KeyAtIndex(PortConfigList', CurrentIndex') = cur]_vars

\* The accepted candidate was deleted and the verification restarted.
CurrentDeleted ==
    /\ lastEvent = "DPCDelete"
    /\ CurrentIndex = -1
    /\ engine = "Testing"
    /\ NextDPCIndex = 0
    /\ DeviceNetworkStatus.Key \in Keys \ KeysOf(PortConfigList)

\* Success/failure history of a candidate.
MetaOf(c) == <<c.LastSucceeded, c.LastFailed, c.LastError>>

\* The step records a probe result on the candidate of source key k.
ResultAppliedTo(k) ==
    LET i == IndexOfKey(PortConfigList, k)
        j == IndexOfKey(PortConfigList', k)
    IN  /\ i >= 0 /\ j >= 0
        /\ MetaOf(At(PortConfigList', j)) # MetaOf(At(PortConfigList, i))
        /\ MetaOf(At(PortConfigList', j)) # <<ZeroTime, ZeroTime, "">>

HasMgmtPort(c) == \E i \in 1..Len(c.Ports) : c.Ports[i].IsMgmt

AddrChangeKicksVerify ==
    [][( /\ ifindexToAddrs' # ifindexToAddrs
         /\ PendingInprogress
         /\ \A st \in Materialize(At(PortConfigList, NextDPCIndex), Dir') :
              checkIfAllDNSPortsHaveIPAddrs(st) ) =>
         lastEvent' \in {"VerifyAccept", "VerifyFail"}]_vars

\* The addresses the map holds for an index; none for an index it lacks.
ListOf(addrs, index) == IF index \in DOMAIN addrs THEN addrs[index] ELSE <<>>
Holds(addrs, index, ip) ==
    \E i \in 1..Len(ListOf(addrs, index)) : ListOf(addrs, index)[i].IP = ip
AddThenDel(addrs, index, a) ==
    IfindexToAddrsDel(IfindexToAddrsAdd(addrs, index, a).cache, index, a).cache

\* C15 (as amended): address equality ignores the prefix length.  When the
\* list of an index holds the host address of a under any prefix length,
\* IfindexToAddrsAdd returns false and changes nothing and IfindexToAddrsDel
\* removes exactly that entry and returns true; an add that returned true
\* followed by a remove of the same address restores the previous list.
AddrEqualityIgnoresPrefix ==
    \A index \in Ifindexes, a \in IPNets :
       LET list == ListOf(ifindexToAddrs, index)
           add  == IfindexToAddrsAdd(ifindexToAddrs, index, a)
           del  == IfindexToAddrsDel(ifindexToAddrs, index, a)
       IN  /\ \A i, j \in 1..Len(list) : list[i].IP = list[j].IP => i = j
           /\ Holds(ifindexToAddrs, index, a.IP) =>
                /\ add = [cache |-> ifindexToAddrs, ret |-> FALSE]
                /\ del.ret
                /\ ListOf(del.cache, index) =
                     SelectSeq(list, LAMBDA e : e.IP # a.IP)
                /\ Len(ListOf(del.cache, index)) = Len(list) - 1
                /\ \A other \in Ifindexes \ {index} :
                     ListOf(del.cache, other) = ListOf(ifindexToAddrs, other)
           /\ ~Holds(ifindexToAddrs, index, a.IP) =>
                /\ add.ret
                /\ ListOf(add.cache, index) = Append(list, a)
                /\ ~del.ret /\ del.cache = ifindexToAddrs
           /\ add.ret =>
                \A other \in Ifindexes :
                   ListOf(AddThenDel(ifindexToAddrs, index, a), other) =
                     ListOf(ifindexToAddrs, other)

\* An add of a host address the list held under another prefix length
\* returned false.
SameHostOtherPrefixRefused ==
    /\ lastResult.op = "IfindexToAddrsAdd"
    /\ ~lastResult.ret
    /\ \E index \in Ifindexes :
          \E i \in 1..Len(ListOf(ifindexToAddrs, index)) :
             /\ ifindexToAddrs[index][i].IP = lastResult.arg.addr.IP
             /\ ifindexToAddrs[index][i].PrefixLen #
                  lastResult.arg.addr.PrefixLen

\* C15 as stated: any add followed by a remove of the same address restores
\* the previous list.
AddThenDelRestores ==
    \A index \in Ifindexes, a \in IPNets :
       ListOf(AddThenDel(ifindexToAddrs, index, a), index) =
         ListOf(ifindexToAddrs, index)

\* C16: IfindexToNameAdd inserts the entry of an index the cache lacks and
\* returns true; for a known index under another name it replaces the entry
\* by the new name and type and returns false; for a known index under the
\* same name it leaves the cache as it is and returns false.  Other indexes
\* are not touched.
LinkAddRecords ==
    [][lastResult'.op = "IfindexToNameAdd" =>
         LET a == lastResult'.arg
             e == linkNameType(a.linkName, a.linkType)
         IN  /\ \A i \in Ifindexes \ {a.index} :
                  /\ i \in DOMAIN ifindexToName' <=> i \in DOMAIN ifindexToName
                  /\ i \in DOMAIN ifindexToName =>
                       ifindexToName'[i] = ifindexToName[i]
             /\ a.index \in DOMAIN ifindexToName'
             /\ IF a.index \notin DOMAIN ifindexToName
                THEN lastResult'.ret /\ ifindexToName'[a.index] = e
                ELSE IF ifindexToName[a.index].linkName # a.linkName
                THEN ~lastResult'.ret /\ ifindexToName'[a.index] = e
                ELSE /\ ~lastResult'.ret
                     /\ ifindexToName' = ifindexToName]_vars

\* A link event gave a known index another name: the entry was replaced and
\* the call returned false.
LinkRenamed ==
    /\ lastResult.op = "IfindexToNameAdd"
    /\ logged = "name mismatch"
    /\ ~lastResult.ret
    /\ ifindexToName[lastResult.arg.index] =
         linkNameType(lastResult.arg.linkName, lastResult.arg.linkType)

\* C17: IfindexToNameDel removes the entry of a known index and returns true
\* whether or not the name of the event is the cached one; for an unknown
\* index it returns false and leaves the cache as it is.  Other indexes are
\* not touched.
LinkDelRemoves ==
    [][lastResult'.op = "IfindexToNameDel" =>
         LET a == lastResult'.arg
         IN  /\ \A i \in Ifindexes \ {a.index} :
                  /\ i \in DOMAIN ifindexToName' <=> i \in DOMAIN ifindexToName
                  /\ i \in DOMAIN ifindexToName =>
                       ifindexToName'[i] = ifindexToName[i]
             /\ a.index \notin DOMAIN ifindexToName'
             /\ lastResult'.ret <=> a.index \in DOMAIN ifindexToName]_vars

\* A delete under another name than the cached one removed the entry and left
\* the entry of the other index.
LinkDeletedUnderOtherName ==
    /\ lastResult.op = "IfindexToNameDel"
    /\ logged = "name mismatch"
    /\ lastResult.ret
    /\ lastResult.arg.index \notin DOMAIN ifindexToName
    /\ DOMAIN ifindexToName # {}

\* The indexes under which a map of links holds the name.
IndexesOf(links, ifname) == {i \in DOMAIN links : links[i].linkName = ifname}

\* C18: IfindexToName and IfnameToIndex answer from the cache when the entry
\* is cached, else with what the kernel answers, and return an error only
\* when neither the cache nor the kernel knows the key; a lookup leaves the
\* cache as it is.
LookupsFallBackToOS ==
    [][/\ lastResult'.op \in {"IfindexToName", "IfnameToIndex",
                              "IfnameToIndexUplink"} =>
            /\ ifindexToName' = ifindexToName
            /\ ifindexToAddrs' = ifindexToAddrs
       /\ lastResult'.op = "IfindexToName" =>
            LET index == lastResult'.arg.index
                r     == lastResult'.link
            IN  /\ r.err <=> index \notin DOMAIN ifindexToName \cup DOMAIN osLinks
                /\ index \in DOMAIN ifindexToName =>
                     r = Found(ifindexToName[index])
                /\ index \in DOMAIN osLinks \ DOMAIN ifindexToName =>
                     r = Found(osLinks[index])
       /\ lastResult'.op \in {"IfnameToIndex", "IfnameToIndexUplink"} =>
            LET ifname == lastResult'.arg.linkName
                r      == lastResult'.found
                cached == IndexesOf(ifindexToName, ifname)
                inOs   == IndexesOf(osLinks, ifname)
            IN  /\ r.err <=> cached \cup inOs = {}
                /\ cached # {} => r.index \in cached
                /\ cached = {} /\ inOs # {} => r.index \in inOs]_vars

\* The port has no index: neither the cache nor the kernel knows its name.
PortMissing(port) ==
    \A r \in IfnameToIndex(ifindexToName, osLinks, port.IfName) : r.err

\* The status made in this step has one entry per configured port in
\* configuration order, no address on a port that does not exist, and the
\* addresses of the directory on every port that does.
OthersMaterialized ==
    LET ports  == lastResult'.arg.ports
        status == DeviceNetworkStatus'
    IN  /\ Len(status.Ports) = Len(ports)
        /\ \A i \in 1..Len(ports) :
             /\ status.Ports[i].IfName = ports[i].IfName
             /\ status.Ports[i].IsMgmt = ports[i].IsMgmt
             /\ PortMissing(ports[i]) => status.Ports[i].AddrInfoList = <<>>
             /\ ~PortMissing(ports[i]) =>
                  \E r \in IfnameToIndex(ifindexToName, osLinks,
                                         ports[i].IfName) :
                     status.Ports[i].AddrInfoList =
                       AddrInfoList(ListOf(ifindexToAddrs, r.index))

MissingPortOthersMaterialized ==
    [][lastResult'.op = "MakeDeviceNetworkStatus" => OthersMaterialized]_vars

\* C19: when a port named in the configuration does not exist, its status
\* entry carries an error string and an error time and has no addresses,
\* every other port is still materialized, and the status has one entry per
\* configured port in configuration order.
MissingPortMarkedErrored ==
    [][lastResult'.op = "MakeDeviceNetworkStatus" =>
         /\ OthersMaterialized
         /\ \A i \in 1..Len(lastResult'.arg.ports) :
              PortMissing(lastResult'.arg.ports[i]) =>
                 /\ DeviceNetworkStatus'.Ports[i].Error # ""
                 /\ DeviceNetworkStatus'.Ports[i].ErrorTime # NoErrorTime]_vars

\* C20: geolocation is carried forward and rate-limited.  An address that the
\* previous status had on the same port and that is not looked up keeps its
\* geolocation and its time; ipinfo is asked for an address only if the
\* address is new in the status or the refresh interval has passed since it
\* was asked for that address last.
GeoCarriedAndRateLimited ==
    [][lastEvent' \in {"MakeDeviceNetworkStatus", "geoTimer"} =>
         /\ \A i \in 1..Len(DeviceNetworkStatus'.Ports) :
              \A j \in 1..Len(DeviceNetworkStatus'.Ports[i].AddrInfoList) :
                 LET ai   == DeviceNetworkStatus'.Ports[i].AddrInfoList[j]
                     oais == lookupPortStatusAddr(DeviceNetworkStatus,
                                DeviceNetworkStatus'.Ports[i].IfName, ai.Addr)
                 IN  oais # {} /\ ai.Addr \notin geoLookups' =>
                       \E oai \in oais :
                          /\ ai.Geo = oai.Geo
                          /\ ai.LastGeoTimestamp = oai.LastGeoTimestamp
         /\ \A a \in geoLookups' :
              \/ a \notin DOMAIN geoLookedUp
              \/ \A i \in 1..Len(DeviceNetworkStatus.Ports) :
                    lookupPortStatusAddr(DeviceNetworkStatus,
                       DeviceNetworkStatus.Ports[i].IfName, a) = {}
              \/ now - geoLookedUp[a] >= GeoRedoTime]_vars

\* The status is one MakeDeviceNetworkStatus returns for the port under the
\* directory d at some time up to now, geolocation apart.
MadeUnder(status, d) ==
    \E t \in 0..now :
       WithGeo(status) \in
         {WithGeo(st) : st \in MakeDeviceNetworkStatus(KeyS, <<MgmtPort>>,
                                 [d EXCEPT !.now = t])}

\* C21: the status made again for the same configuration under a directory
\* that gives what it gave when the previous status was made is deep-equal
\* to the previous status, geolocation apart, also while the call for DHCP
\* data or for the proxy configuration keeps failing.
MaterializeIdempotent ==
    [][/\ lastEvent' = "MakeDeviceNetworkStatus"
       /\ lastResult'.op = "AddrChange"
       /\ MadeUnder(DeviceNetworkStatus, Dir')
       => WithGeo(DeviceNetworkStatus') = WithGeo(DeviceNetworkStatus)]_vars

\* C22: with no verification in progress an address change stores the
\* status made again and publishes it exactly when it differs from the
\* current one; when they are equal the stored and the published status
\* stay as they are.  An event that changed no address list, or that came
\* while a verification waits for addresses, touches neither.
AddrChangeNotifiesOnDifference ==
    [][/\ lastEvent' \in {"AddrChangeUpdate", "AddrChangeNoChange"} =>
            /\ ~PendingInprogress
            /\ DeviceNetworkStatus' \in
                 MakeDeviceNetworkStatus(DeviceNetworkStatus.Key,
                    ConfigPorts(DeviceNetworkStatus), Dir')
            /\ lastEvent' = "AddrChangeUpdate" <=>
                 DeviceNetworkStatus' # DeviceNetworkStatus
            /\ IF DeviceNetworkStatus' # DeviceNetworkStatus
               THEN pubDNS' = DeviceNetworkStatus'
               ELSE pubDNS' = pubDNS
       /\ lastEvent' \in {"AddrChangeNone", "AddrChangeWait"} =>
            UNCHANGED <<DeviceNetworkStatus, pubDNS>>]_vars

\* An address that came to the port of the current status was published.
AddrChangePublished ==
    /\ lastEvent = "AddrChangeUpdate"
    /\ ~PendingInprogress
    /\ pubDNS = DeviceNetworkStatus
    /\ \E i \in 1..Len(DeviceNetworkStatus.Ports) :
          DeviceNetworkStatus.Ports[i].AddrInfoList # <<>>

\* C23: a later TimePriority means a lower list index.  The last-resort
\* candidate (Unix 0) comes after the model-derived one (Unix 2), that one
\* after every candidate with a later timestamp, and a candidate with the
\* zero TimePriority after both.
PriorityConvention ==
    \A i, j \in 1..Len(PortConfigList) :
       LET a == PortConfigList[i].TimePriority
           b == PortConfigList[j].TimePriority
       IN  /\ a > b => i < j
           /\ a = ModelPriority /\ b = LastResortPriority => i < j
           /\ a > ModelPriority /\ b = ModelPriority => i < j
           /\ a \in {LastResortPriority, ModelPriority}
                /\ b = ZeroTimePriority => i < j

\* The last-resort candidate is the first of the list and a candidate with
\* the zero TimePriority comes after it.
LastResortAboveZeroTime ==
    /\ Len(PortConfigList) = 2
    /\ PortConfigList[1].TimePriority = LastResortPriority
    /\ PortConfigList[2].TimePriority = ZeroTimePriority

\* C24: no outcome of a connectivity probe ends the process; the caller
\* records the failure and the event loop goes on.
ProbeNeverTerminates ==
    [][Alive /\ lastEvent' \notin {"DPCModify", "AAModify"} =>
         /\ Alive'
         /\ lastEvent' \in {"NetworkTestPassed", "NetworkTestFailed",
                             "NetworkTestInprogress", "NetworkTestRestart"}
              => lastTest' \in {"passed", "failed"}]_vars

\* The INPUT chain has a REJECT rule for 8080 and one for 4822, and a remote
\* peer is rejected on both ports.
AlwaysBlocked ==
    /\ HasReject(iptables, 8080, 8080) /\ Rejects(iptables, 8080, FALSE)
    /\ HasReject(iptables, 4822, 4822) /\ Rejects(iptables, 4822, FALSE)

SshBlockedImpliesVncBlocked ==
    ~sshAccess /\ Rejects(iptables, 22, FALSE) =>
       \A port \in {5900, 5999} : Rejects(iptables, port, FALSE)

\* ------------------------------------------------------------------ client
\* The file name of the device's model, the one handleDNCModify accepts.
manufacturerModel == "model"
DNCKeys == {manufacturerModel, "global", "other"}

\* The addresses of every port of the status that are not link-local.
CountLocalAddrAnyNoLinkLocalPorts(status) ==
    Cardinality(UNION {
        {<<i, j>> : j \in {k \in 1..Len(status.Ports[i].AddrInfoList) :
              ~IsLinkLocalUnicast(status.Ports[i].AddrInfoList[k].Addr)}} :
        i \in 1..Len(status.Ports)})

\* A doDNSUpdate that never tells ledmanager of the first usable address.
doDNSUpdateLossOnly ==
    LET newAddrCount == CountLocalAddrAnyNoLinkLocalPorts(clientDNS')
    IN  /\ clientLed' = IF newAddrCount = 0 /\ clientUsableAddressCount # 0
                        THEN 1 ELSE NoLed
        /\ clientUsableAddressCount' = newAddrCount

\* doDNSUpdate, called with ctx.deviceNetworkStatus already replaced.
doDNSUpdate ==
    LET newAddrCount == CountLocalAddrAnyNoLinkLocalPorts(clientDNS')
    IN  /\ clientLed' = IF newAddrCount = 0 /\ clientUsableAddressCount # 0
                        THEN 1
                        ELSE IF newAddrCount # 0 /\ clientUsableAddressCount = 0
                        THEN 2
                        ELSE NoLed
        /\ clientUsableAddressCount' = newAddrCount

ClientFrame == UNCHANGED <<nimVars, consumerVars, fwVars, beatVars, pbrVars,
                           ifindexToName, ifindexToAddrs, osLinks, logged,
                           failing, geoVars>>

\* The handler took the new status and called doDNSUpdate, or left all alone.
ClientTake(op, new) ==
    IF clientDNS # new
    THEN /\ clientDNS' = new
         /\ doDNSUpdate
         /\ lastResult' = Result(op, NoArg, TRUE)
    ELSE /\ UNCHANGED <<clientDNS, clientUsableAddressCount>>
         /\ clientLed' = NoLed
         /\ lastResult' = Result(op, NoArg, FALSE)

ClientIgnore(op) ==
    /\ UNCHANGED <<clientDNS, clientUsableAddressCount>>
    /\ clientLed' = NoLed
    /\ lastResult' = Result(op, NoArg, FALSE)

handleDNCModify(configFilename, config) ==
    IF configFilename # manufacturerModel
    THEN ClientIgnore("handleDNCModify")
    ELSE \E new \in MakeDeviceNetworkStatus(manufacturerModel, config, Dir) :
            ClientTake("handleDNCModify", new)

handleDNCDelete(configFilename) ==
    IF configFilename # "global"
    THEN ClientIgnore("handleDNCDelete")
    ELSE ClientTake("handleDNCDelete", EmptyStatus)

DNCModify ==
    \E key \in DNCKeys, config \in SynthConfigs :
       handleDNCModify(key, config) /\ ClientFrame

DNCDelete ==
    \E key \in DNCKeys : handleDNCDelete(key) /\ ClientFrame

\* The addresses the kernel reports while the client runs, one of them
\* link-local.
ClientNets == {IPNet(0, 2), IPNet(1, 2), IPNet(2, 2)}

NextClient ==
    \/ DNCModify
    \/ DNCDelete
    \/ IfAddrsAddOn({1}, ClientNets)
    \/ IfAddrsDelOn({1}, ClientNets)

SpecClient == InitAddr /\ [][NextClient]_vars

\* C27: a call of doDNSUpdate gives ledmanager 1 exactly when the count of
\* usable addresses went from non-zero to zero, 2 exactly when it went from
\* zero to non-zero, and nothing otherwise; afterwards the stored count is
\* the count of the status the context holds.
LedFollowsAddressCount ==
    [][lastResult'.op \in {"handleDNCModify", "handleDNCDelete"}
       /\ lastResult'.ret
       => LET new == CountLocalAddrAnyNoLinkLocalPorts(clientDNS')
              old == clientUsableAddressCount
          IN  /\ clientLed' = 1 <=> (new = 0 /\ old # 0)
              /\ clientLed' = 2 <=> (new # 0 /\ old = 0)
              /\ clientLed' \in {NoLed, 1, 2}
              /\ clientUsableAddressCount' = new]_vars

\* The client was told of a status with usable addresses after one without.
FirstAddressSignalled ==
    /\ lastResult.op = "handleDNCModify" /\ lastResult.ret
    /\ clientLed = 2
    /\ clientUsableAddressCount = 2

\* The client lost its last usable address.
LastAddressLossSignalled ==
    /\ lastResult.op \in {"handleDNCModify", "handleDNCDelete"}
    /\ lastResult.ret
    /\ clientLed = 1
    /\ clientUsableAddressCount = 0

\* ------------------------------------------------- nim: StillRunning ticker
\* <DNCDirname>/<model>.json for the hardware model and for "default", and
\* the DevicePortConfig override file.
DNCFileNames == {"hw", "default"}
FileNames == DNCFileNames \cup {"override"}

BeatFrame == UNCHANGED <<nimVars, ifVars, consumerVars, fwVars, clientVars,
                         pbrVars>>

\* time.NewTicker(25 * time.Second): the channel holds one tick, a tick that
\* finds it full is dropped.
StillRunningTickerFire ==
    /\ missedTicks < MaxMissed
    /\ stillRunningC' = TRUE
    /\ missedTicks' = missedTicks + 1
    /\ UNCHANGED <<phase, tries, model, dncFiles>>
    /\ BeatFrame

\* Somebody installs a configuration file.
DNCFileCreate ==
    /\ \E f \in DNCFileNames \ dncFiles : dncFiles' = dncFiles \cup {f}
    /\ UNCHANGED <<phase, stillRunningC, missedTicks, tries, model>>
    /\ BeatFrame

\* waitForDeviceNetworkConfigFile up to its loop.
waitForDeviceNetworkConfigFileEnter ==
    /\ phase = "start"
    /\ IF "override" \in dncFiles
       THEN model' = "default" /\ phase' = "waitGC"
       ELSE model' = model /\ phase' = "waitFile"
    /\ UNCHANGED <<stillRunningC, missedTicks, tries, dncFiles>>
    /\ BeatFrame

\* One round of the loop of waitForDeviceNetworkConfigFile: os.Stat, and
\* without the file a second of sleep.
waitForDeviceNetworkConfigFileTry ==
    /\ phase = "waitFile"
    /\ IF model \in dncFiles
       THEN /\ phase' = "waitGC"
            /\ UNCHANGED <<tries, model>>
       ELSE /\ tries' = IF tries > MaxTries THEN tries ELSE tries + 1
            /\ model' = IF tries + 1 = MaxTries THEN "default" ELSE model
            /\ phase' = phase
    /\ UNCHANGED <<stillRunningC, missedTicks, dncFiles>>
    /\ BeatFrame

\* "Wait for initial GlobalConfig": case change := <-subGlobalConfig.C
WaitGCChange ==
    /\ phase = "waitGC"
    /\ Len(iptables) + MostAppended <= MaxRules
    /\ \/ \E key \in GCKeys, gcp \in GlobalConfigs :
            handleGlobalConfigModify(key, gcp)
       \/ \E done \in BOOLEAN : handleGlobalConfigSynchronized(done)
    /\ phase' = IF GCInitialized' THEN "select" ELSE phase
    /\ UNCHANGED <<stillRunningC, missedTicks, tries, model, dncFiles>>
    /\ UNCHANGED <<nimVars, ifVars, consumerVars, fwRev, clientVars, pbrVars>>

\* case <-stillRunning.C: agentlog.StillRunning(agentName)
StillRunning ==
    /\ phase \in {"waitGC", "select"}
    /\ stillRunningC
    /\ stillRunningC' = FALSE
    /\ missedTicks' = 0
    /\ UNCHANGED <<phase, tries, model, dncFiles>>
    /\ BeatFrame

InSelect == phase = "select"

NextBeat ==
    \/ StillRunningTickerFire
    \/ DNCFileCreate
    \/ waitForDeviceNetworkConfigFileEnter
    \/ waitForDeviceNetworkConfigFileTry
    \/ WaitGCChange
    \/ StillRunning
    \/ InSelect /\ AAModify
    \/ InSelect /\ DPCModifyS({ModelPriority}, {<<MgmtPort>>})
    \/ InSelect /\ PendTimerFire

InitStart ==
    /\ InitNim /\ NetworkTestBetterInterval = 0
    /\ InitIfNoAddrs
    /\ InitConsumers /\ diagGotOthers = TRUE
    /\ InitFw({"ssh.go"})
    /\ InitClient
    /\ InitPbr
    /\ InitBeat({"start"}, SUBSET FileNames)

\* The loops take their next round, and a select with a tick waiting gets to
\* the case of the ticker.
SpecBeat ==
    /\ InitStart
    /\ [][NextBeat]_vars
    /\ WF_vars(waitForDeviceNetworkConfigFileEnter)
    /\ WF_vars(waitForDeviceNetworkConfigFileTry)
    /\ WF_vars(StillRunning)

\* C28: while nim is alive a tick of the 25-second ticker is followed by a
\* call of StillRunning, in every phase that waits.
HeartbeatNeverStarved == (missedTicks > 0) ~> (missedTicks = 0)

\* The same for the phases that select on the ticker.
HeartbeatInSelectLoops ==
    (missedTicks > 0 /\ phase \in {"waitGC", "select"}) ~> (missedTicks = 0)

\* C29: once wstunnelclient was delivered a DeviceNetworkStatus for "global",
\* whatever its content, DNSinitialized is true (until a delete), so that the
\* startup loop waiting for it ends.
InitializedByFirstDelivery == wstDelivered => DNSinitialized

\* The delivery that equals the stored empty status.
EmptyStatusDelivered == wstDelivered /\ wstDNS = EmptyDNS

\* ------------------------------------------------ zedrouter: PbrAddrChange
FreeTable == 500

\* netlink.Rule: the table and the source prefix.
Rule(table, src) == [Table |-> table, Src |-> src]

\* The rule of an address: the subnet for a bridge, else the host (/32, /128).
SourceRule(table, p, bridge) ==
    Rule(table, IF bridge THEN p ELSE IPNet(p.IP, 2))

\* An addSourceRule that puts every rule into FreeTable itself.
addSourceRuleFreeTable(rs, ifindex, p, bridge) ==
    (rs \ {SourceRule(FreeTable, p, bridge)})
      \cup {SourceRule(FreeTable, p, bridge)}

\* addSourceRule: RuleDel to avoid a duplicate, then RuleAdd.
addSourceRule(rs, ifindex, p, bridge) ==
    (rs \ {SourceRule(FreeTable + ifindex, p, bridge)})
      \cup {SourceRule(FreeTable + ifindex, p, bridge)}

\* delSourceRule: RuleDel.
delSourceRule(rs, ifindex, p, bridge) ==
    rs \ {SourceRule(FreeTable + ifindex, p, bridge)}

\* types.IsMgmtPort
IsMgmtPort(status, ifname) ==
    \E i \in 1..Len(status.Ports) :
       status.Ports[i].IfName = ifname /\ status.Ports[i].IsMgmt

Call(fn, ifname) == [fn |-> fn, ifname |-> ifname]

\* The address events of the kernel.
PbrNets == {IPNet(1, 2), IPNet(1, 1)}
AddrArgOn(index, addr) == [NoArg EXCEPT !.index = index, !.addr = addr]

\* PbrAddrChange for change = (NewAddr, LinkIndex, LinkAddress), both
\* callbacks registered by PbrInit.
PbrAddrChange ==
    \E NewAddr \in BOOLEAN, LinkIndex \in Ifindexes, LinkAddress \in PbrNets :
       LET r == IF NewAddr
                THEN IfindexToAddrsAdd(ifindexToAddrs, LinkIndex, LinkAddress)
                ELSE IfindexToAddrsDel(ifindexToAddrs, LinkIndex, LinkAddress)
           changed == r.ret
           link == IfindexToName(ifindexToName, osLinks, LinkIndex)
           bridge == link.linkType = "bridge"
       IN  /\ ifindexToAddrs' = r.cache
           /\ rules' = IF ~changed THEN rules
                       ELSE IF NewAddr
                       THEN addSourceRule(rules, LinkIndex, LinkAddress,
                                          bridge)
                       ELSE delSourceRule(rules, LinkIndex, LinkAddress,
                                          bridge)
           /\ calls' = IF ~changed \/ link.err THEN <<>>
                       ELSE IF IsMgmtPort(DeviceNetworkStatus, link.linkName)
                       THEN <<Call("addrChangeFuncMgmtPort", link.linkName)>>
                       ELSE <<Call("addrChangeFuncNonMgmtPort",
                                   link.linkName)>>
           /\ logged' = IF changed /\ link.err
                        THEN "PbrAddrChange IfindexToName failed" ELSE ""
           /\ lastResult' = Result(IF NewAddr THEN "PbrAddrChangeNew"
                                   ELSE "PbrAddrChangeDel",
                                   AddrArgOn(LinkIndex, LinkAddress), changed)
           /\ UNCHANGED <<ifindexToName, osLinks, failing, geoVars>>
           /\ UNCHANGED <<nimVars, consumerVars, fwVars, clientVars, beatVars,
                          routes, freePorts>>

\* zedrouter's handleDNSModify takes the status nim publishes.
PbrStatusChange ==
    \E ports \in PortChoices :
       \E status \in MakeDeviceNetworkStatus(KeyS, ports, Dir) :
          /\ DeviceNetworkStatus' = status
          /\ lastResult' = Result("DeviceNetworkStatus", PortsArg(ports), TRUE)
          /\ UNCHANGED <<loop, AAInitialized, PortConfigList, CurrentIndex,
                         NextDPCIndex, engine, PendingInprogress, PendDNS,
                         pubDNS, persisted, CloudConnectivityWorks, PendTimer,
                         NetworkTestTimer, NetworkTestBetterTimer,
                         NetworkTestBetterInterval, lastEvent, lastTest,
                         sweep, listChanged>>
          /\ UNCHANGED <<ifindexToName, ifindexToAddrs, osLinks, logged,
                         failing, geoVars, consumerVars, restVars>>

\* The second interface comes as a device or as a bridge, and goes.
NextPbr ==
    \/ PbrAddrChange
    \/ PbrStatusChange
    \/ IfLinkAddOn({2}, {"eth1"}, LinkTypes)
    \/ IfLinkDelOn({2}, {"eth1"})

SpecPbr == InitAddr /\ [][NextPbr]_vars

\* The event handled last was an address event, and what it was about.
PbrStep == lastResult'.op \in {"PbrAddrChangeNew", "PbrAddrChangeDel"}
InCache(index, addr) ==
    /\ index \in DOMAIN ifindexToAddrs
    /\ \E i \in 1..Len(ifindexToAddrs[index]) :
          SameAddr(ifindexToAddrs[index][i], addr)

\* An event that is no change leaves cache and rules alone and calls nobody;
\* an event that is one adds or removes the rule of the address in table
\* FreeTable+ifindex.
PbrRulesFollowCache ==
    PbrStep =>
      LET index == lastResult'.arg.index
          addr == lastResult'.arg.addr
          isNew == lastResult'.op = "PbrAddrChangeNew"
          bridge == IfindexToName(ifindexToName, osLinks, index).linkType
                      = "bridge"
          rule == SourceRule(FreeTable + index, addr, bridge)
      IN  /\ lastResult'.ret <=> (isNew <=> ~InCache(index, addr))
          /\ ~lastResult'.ret =>
               /\ ifindexToAddrs' = ifindexToAddrs
               /\ rules' = rules
               /\ calls' = <<>>
          /\ lastResult'.ret /\ isNew =>
               rule \in rules' /\ rules' \ {rule} = rules \ {rule}
          /\ lastResult'.ret /\ ~isNew =>
               rule \notin rules' /\ rules' = rules \ {rule}

\* The callback an event is answered with, for a link of that name.
CallbackFor(ifname) ==
    Call(IF IsMgmtPort(DeviceNetworkStatus, ifname)
         THEN "addrChangeFuncMgmtPort" ELSE "addrChangeFuncNonMgmtPort",
         ifname)

UnnamedAddressAdded ==
    /\ lastResult.op = "PbrAddrChangeNew" /\ lastResult.ret
    /\ lastResult.arg.index = 2
    /\ calls = <<>>
    /\ Rule(FreeTable + 2, IPNet(1, 2)) \in rules

\* ----------------------------------------------- zedrouter: PbrRouteChange
\* syscall.RT_TABLE_MAIN
RT_TABLE_MAIN == 254
RouteTables == {RT_TABLE_MAIN, FreeTable, FreeTable + 1, FreeTable + 2}

\* netlink.Route: table, destination, output interface and priority.
Route(table, dst, index, priority) ==
    [Table |-> table, Dst |-> dst, LinkIndex |-> index, Priority |-> priority]

\* The destinations of the kernel's routes, one of them link-local.
RouteDsts == {IPNet(0, 1), IPNet(2, 1)}

\* types.IsFreeMgmtPort: a management port of the status marked Free.
IsFreeMgmtPort(status, free, ifname) ==
    IsMgmtPort(status, ifname) /\ ifname \in free

\* srt, the copy for FreeTable: the priority of a link-local destination is
\* forced to the ifindex.
FreeRoute(rt) ==
    Route(FreeTable, rt.Dst,  rt.LinkIndex,
          IF IsLinkLocalUnicast(rt.Dst.IP) THEN rt.LinkIndex ELSE rt.Priority)

\* myrt, the copy for the table of the ifindex.
MyRoute(rt) == Route(FreeTable + rt.LinkIndex, rt.Dst, rt.LinkIndex, rt.Priority)

\* A PbrRouteChange that mirrors a route of any table.
PbrRouteChangeAnyTable(rs, Type, rt, doFreeTable) ==
    LET both == {MyRoute(rt)} \cup (IF doFreeTable THEN {FreeRoute(rt)} ELSE {})
    IN  IF Type = "RTM_DELROUTE" THEN rs \ both ELSE rs \cup both

\* PbrRouteChange: the routes after the event.
PbrRouteChangeRoutes(rs, Type, rt, doFreeTable) ==
    IF rt.Table # RT_TABLE_MAIN
    THEN rs
    ELSE LET both == {MyRoute(rt)}
                       \cup (IF doFreeTable THEN {FreeRoute(rt)} ELSE {})
         IN  IF Type = "RTM_DELROUTE" THEN rs \ both ELSE rs \cup both

PbrRouteChange ==
    \E Type \in {"RTM_NEWROUTE", "RTM_DELROUTE"}, Table \in RouteTables,
       LinkIndex \in Ifindexes, Dst \in RouteDsts :
       LET rt == Route(Table, Dst, LinkIndex, 0)
           link == IfindexToName(ifindexToName, osLinks, LinkIndex)
           doFreeTable == /\ ~link.err
                          /\ IsFreeMgmtPort(DeviceNetworkStatus, freePorts,
                                            link.linkName)
       IN  /\ routes' = PbrRouteChangeRoutes(routes, Type, rt, doFreeTable)
           /\ logged' = IF Table = RT_TABLE_MAIN /\ link.err
                        THEN "PbrRouteChange IfindexToName failed" ELSE ""
           /\ lastResult' = Result(Type, AddrArgOn(LinkIndex, Dst),
                                   Table = RT_TABLE_MAIN)
           /\ UNCHANGED <<ifindexToName, ifindexToAddrs, osLinks, failing,
                          geoVars>>
           /\ UNCHANGED <<nimVars, consumerVars, fwVars, clientVars, beatVars,
                          rules, calls, freePorts>>

\* The status zedrouter holds marks other ports Free.
PbrFreeChange ==
    /\ \E free \in SUBSET LinkNames : freePorts' = free
    /\ lastResult' = Result("DeviceNetworkStatus", NoArg, FALSE)
    /\ UNCHANGED <<ifindexToName, ifindexToAddrs, osLinks, logged, failing,
                   geoVars>>
    /\ UNCHANGED <<nimVars, consumerVars, fwVars, clientVars, beatVars,
                   rules, calls, routes>>

NextRoute ==
    \/ PbrRouteChange
    \/ PbrStatusChange
    \/ PbrFreeChange
    \/ IfLinkAddOn({2}, {"eth1"}, {"device"})
    \/ IfLinkDelOn({2}, {"eth1"})

SpecRoute == InitAddr /\ [][NextRoute]_vars

\* The interface of the ifindex is a free management port of the status.
RouteOnFreePort(index) ==
    \E n \in LinkNames :
       /\ \/ index \in DOMAIN ifindexToName /\ ifindexToName[index].linkName = n
          \/ /\ index \notin DOMAIN ifindexToName
             /\ index \in DOMAIN osLinks /\ osLinks[index].linkName = n
       /\ n \in freePorts
       /\ \E i \in 1..Len(DeviceNetworkStatus.Ports) :
             /\ DeviceNetworkStatus.Ports[i].IfName = n
             /\ DeviceNetworkStatus.Ports[i].IsMgmt

\* C31: a route update of another table than main adds and deletes no
\* route; a main-table add (delete) is added to (deleted from) table
\* FreeTable+LinkIndex always, and to (from) FreeTable exactly when the
\* interface of the route is a free management port at the time of the event.
RouteChangeMirrorsMainOnly ==
    [][lastResult'.op \in {"RTM_NEWROUTE", "RTM_DELROUTE"} =>
         LET index == lastResult'.arg.index
             dst == lastResult'.arg.addr
             Touched(r) == /\ r.Table \in {FreeTable, FreeTable + index}
                           /\ r.Dst = dst /\ r.LinkIndex = index
             Mine(rs) == {r \in rs : Touched(r) /\ r.Table = FreeTable + index}
             Free(rs) == {r \in rs : Touched(r) /\ r.Table = FreeTable}
             isNew == lastResult'.op = "RTM_NEWROUTE"
         IN  /\ ~lastResult'.ret => routes' = routes
             /\ lastResult'.ret =>
                  /\ {r \in routes' : ~Touched(r)} = {r \in routes : ~Touched(r)}
                  /\ Mine(routes') # {} <=> isNew
                  /\ IF RouteOnFreePort(index)
                     THEN Free(routes') # {} <=> isNew
                     ELSE Free(routes') = Free(routes)]_vars

\* A main-table route of the free management port came: it is in table 501
\* and in FreeTable.
FreePortRouteMirrored ==
    /\ lastResult.op = "RTM_NEWROUTE" /\ lastResult.ret
    /\ lastResult.arg.index = 1
    /\ Route(FreeTable + 1, IPNet(0, 1), 1, 0) \in routes
    /\ Route(FreeTable, IPNet(0, 1), 1, 0) \in routes

\* -------------------------------------------------------------- ledmanager
\* The main loop of ledmanager and its blink goroutine; the goroutine keeps
\* running its cycle.
NextLed ==
    \/ LedDNSModify
    \/ LedDNSDelete
    \/ LedBlinkModify
    \/ LedBlinkDelete
    \/ BlinkSelect
    \/ BlinkOnce
    \/ BlinkPause

SpecLed ==
    /\ InitAddr
    /\ [][NextLed]_vars
    /\ WF_vars(BlinkSelect) /\ WF_vars(BlinkOnce) /\ WF_vars(BlinkPause)

\* C32: once updateDerivedLedCounter was called, derivedLedCounter is 1
\* without a usable address and else the larger of ledCounter and 2;
\* usableAddressCount is zero exactly when the status accepted last has no
\* address that is not link-local; and a LedBlinkCounter modify that carries
\* the counter ledmanager has sends nothing to the blink goroutine.
DerivedCounterFollows ==
    [][/\ ledUpdated' =>
            derivedLedCounter' =
               IF ledUsableAddressCount' = 0 THEN 1
               ELSE IF ledCounter' > 2 THEN ledCounter' ELSE 2
       /\ ledUsableAddressCount' = 0
            <=> CountLocalAddrAnyNoLinkLocal(ledDNS') = 0
       /\ \A key \in LedBlinkKeys, BlinkCounter \in 0..MaxBlink :
            handleLedBlinkModify(key, BlinkCounter)
              /\ BlinkCounter = ledCounter
            => UNCHANGED <<countChange, derivedLedCounter>>]_vars

\* With usable addresses and the largest zedcloud counter the derived counter
\* is that counter.
DerivedIsLedCounter ==
    /\ ledUpdated
    /\ ledUsableAddressCount > 0
    /\ ledCounter = MaxBlink
    /\ derivedLedCounter = MaxBlink

\* C33: a value the main loop sends on countChange is not replaced before
\* the goroutine has it, the goroutine's counter is that value once it is
\* taken, every send ends, and the goroutine goes to its pause after as many
\* blinks as its counter says.
BlinkNeverDeadlocks ==
    /\ [][/\ countChange # NoSend =>
               \/ countChange' = countChange /\ blinkCounter' = blinkCounter
               \/ countChange' = NoSend /\ blinkCounter' = countChange
          /\ blinkPc = "blink" /\ blinkPc' = "pause" =>
               blinkI = (IF blinkCounter > 0 THEN blinkCounter ELSE 0)
          /\ blinkPc' = "blink" /\ blinkPc = "select" => blinkI' = 0]_vars
    /\ (countChange # NoSend) ~> (countChange = NoSend)

\* The goroutine took the largest counter and blinked that often.
BlinkedAsReceived ==
    /\ blinkPc = "pause"
    /\ blinkCounter = MaxBlink
    /\ blinkI = MaxBlink
    /\ countChange = NoSend

\* ------------------------------------------------ ssh and VNC access rules
\* C34: after any GlobalConfig modify, delete and synchronized events the
\* INPUT chain has a REJECT rule for port 22, and rejects a remote peer on
\* it, exactly when ctx.sshAccess is false; with SshAccess enabled no REJECT
\* rule for port 22 is left.
SshFollowsConfig ==
    /\ HasReject(iptables, 22, 22) <=> ~sshAccess
    /\ Rejects(iptables, 22, FALSE) <=> ~sshAccess

\* C35: once nim has acted on its first GlobalConfig event (from then on the
\* chain has the REJECT rule for 8080), remote connections to the VNC ports
\* 5900-5999 are rejected exactly when ctx.allowAppVnc is false; with
\* AllowAppVnc enabled no REJECT rule for the ports is left.
VncFollowsConfig ==
    HasReject(iptables, 8080, 8080) =>
       /\ \A port \in {5900, 5999} :
             Rejects(iptables, port, FALSE) <=> ~allowAppVnc
       /\ allowAppVnc => ~HasReject(iptables, 5900, 5999)

====
